---- MODULE Spec2Model ----
(***************************************************************************)
(* Model of the printlabel label engine: UPC-A validation                  *)
(* (app/utils/validation.py), text truncation and word wrapping            *)
(* (app/labels/epl.py, app/labels/zpl.py, app/utils/preview.py).           *)
(*                                                                         *)
(* A Python str is a sequence of characters; a character is a one-letter   *)
(* string, or "U+XXXX" for a character outside ASCII.  A Python value is   *)
(* a record [kind, val]: kind "str" (val the characters), "list" (val a    *)
(* sequence of character sequences), "none" (None) or "raise" (the call    *)
(* ended with the exception named in val).                                 *)
(***************************************************************************)
EXTENDS Integers, Sequences, FiniteSets, TLC

VARIABLES pc, upc, edits, text, max_chars, max_lines, ret

\* the widgets of the window and the effects of the Print button: the size,
\* item, title, casepack and copies fields (their values are also the
\* arguments of a direct call of a generator), the upc12 and the settings
\* handed to the generator, the printer and language selection, the jobs
\* sent to the spooler, the saved selection, the debug payload file and the
\* last message box
VARIABLES cbo_size, txt_item, txt_title, txt_case, spn_copies, arg_upc12,
          arg_settings, cbo_printers, cbo_language, sent, saved, payload_file,
          message

\* the preview: whether the barcode package could be imported, and what the
\* last call of its renderer did
VARIABLES HAS_BARCODE, bc_render

\* send_raw: its arguments, the calls of win32print made so far, each with
\* what it was given and whether it returned, and the exception on its way
\* to the caller
VARIABLES send_args, spool, exc

sendvars == <<send_args, spool, exc>>

genvars == <<cbo_size, txt_item, txt_title, txt_case, spn_copies, arg_upc12,
             arg_settings, cbo_printers, cbo_language, sent, saved,
             payload_file, message, HAS_BARCODE, bc_render, sendvars>>

\* the settings store: the JSON file, the settings_cache of each
\* SettingsManager, the position of each manager inside save_settings, what
\* the last get_settings of each manager returned, the last completed
\* save_settings, and the number of saves begun
VARIABLES store_file, caches, task, observed, last_save, saves

storevars == <<store_file, caches, task, observed, last_save, saves>>

vars == <<pc, upc, edits, text, max_chars, max_lines, ret, genvars, storevars>>

(* ------------------------------ bounds -------------------------------- *)

\* number of single-character edits applied to a base UPC input
MaxEdits == 1
\* longest text handed to truncate_text / wrap_text
MaxTextLen == 6
\* largest max_chars handed to truncate_text / wrap_text
MaxChars == 4
\* largest max_lines handed to wrap_text
MaxLines == 3
\* words in a title
MaxTitleWords == 2
\* largest number of copies asked for
MaxCopies == 3
\* calls of save_settings and reset_to_default in a behaviour
MaxSaves == 2

(* --------------------------- Python values ---------------------------- *)

Str(s) == [kind |-> "str", val |-> s]
List(l) == [kind |-> "list", val |-> l]
None == [kind |-> "none", val |-> <<>>]
Raise(e) == [kind |-> "raise", val |-> <<e>>]

Min(a, b) == IF a < b THEN a ELSE b
Max(a, b) == IF a > b THEN a ELSE b

\* s[:k] of Python: the first k items, counted from the end when k < 0
SliceTo(s, k) ==
    LET n == IF k >= 0 THEN Min(k, Len(s)) ELSE Max(0, Len(s) + k)
    IN  SubSeq(s, 1, n)

\* s[start::2] of Python (start is 0-based)
SliceStep2(s, start) ==
    [k \in 1..((Len(s) - start + 1) \div 2) |-> s[start + 2 * k - 1]]

RECURSIVE sum(_)
sum(s) == IF s = <<>> THEN 0 ELSE Head(s) + sum(Tail(s))

(* ----------------------------- characters ----------------------------- *)

AsciiDigits == {"0", "1", "2", "3", "4", "5", "6", "7", "8", "9"}

\* U+00B2 SUPERSCRIPT TWO: str.isdigit() is True, int() raises ValueError.
\* U+0663 ARABIC-INDIC DIGIT THREE: str.isdigit() is True, int() is 3.
SuperscriptTwo == "U+00B2"
ArabicThree == "U+0663"

\* c.isdigit()
isdigit(c) == c \in AsciiDigits \cup {SuperscriptTwo, ArabicThree}

\* int(c) returns a value (does not raise ValueError)
int_ok(c) == c \in AsciiDigits \cup {ArabicThree}

\* int(c) for a character on which it returns
int(c) ==
    CASE c = "0" -> 0 [] c = "1" -> 1 [] c = "2" -> 2 [] c = "3" -> 3
      [] c = "4" -> 4 [] c = "5" -> 5 [] c = "6" -> 6 [] c = "7" -> 7
      [] c = "8" -> 8 [] c = "9" -> 9 [] c = ArabicThree -> 3

\* str(n) for 0 <= n <= 9
str(n) ==
    CASE n = 0 -> <<"0">> [] n = 1 -> <<"1">> [] n = 2 -> <<"2">>
      [] n = 3 -> <<"3">> [] n = 4 -> <<"4">> [] n = 5 -> <<"5">>
      [] n = 6 -> <<"6">> [] n = 7 -> <<"7">> [] n = 8 -> <<"8">>
      [] n = 9 -> <<"9">>

(* --------------------------- UPC validation --------------------------- *)

\* the same with the weights of the two sums exchanged
compute_upc_check_digit_swapped(upc11) ==
    IF \E i \in 1..Len(upc11) : ~int_ok(upc11[i])
    THEN Raise("ValueError")
    ELSE LET digits == [i \in 1..Len(upc11) |-> int(upc11[i])]
             odd_sum == sum(SliceStep2(digits, 0))
             even_sum == sum(SliceStep2(digits, 1))
             total == odd_sum + even_sum * 3
             check == (10 - (total % 10)) % 10
         IN  Str(str(check))

compute_upc_check_digit(upc11) ==
    IF \E i \in 1..Len(upc11) : ~int_ok(upc11[i])
    THEN Raise("ValueError")
    ELSE LET digits == [i \in 1..Len(upc11) |-> int(upc11[i])]
             odd_sum == sum(SliceStep2(digits, 0))
             even_sum == sum(SliceStep2(digits, 1))
             total == odd_sum * 3 + even_sum
             check == (10 - (total % 10)) % 10
         IN  Str(str(check))

\* the same with the length taken before the non-digits are removed
ensure_upc12_raw_length(u) ==
    IF u.kind = "none" THEN None
    ELSE
    LET clean == SelectSeq(u.val, isdigit)
    IN  IF Len(u.val) = 11
        THEN LET cd == compute_upc_check_digit(clean)
             IN  IF cd.kind = "raise" THEN cd ELSE Str(clean \o cd.val)
        ELSE IF Len(u.val) = 12 /\ Len(clean) > 0
        THEN LET payload == SliceTo(clean, 11)
                 expected == compute_upc_check_digit(payload)
             IN  IF expected.kind = "raise" THEN expected
                 ELSE IF <<clean[Len(clean)]>> = expected.val THEN Str(clean)
                 ELSE None
        ELSE None

\* the same with 12 digits returned without a look at the check digit
ensure_upc12_unverified(u) ==
    IF u.kind = "none" THEN None
    ELSE
    LET clean == SelectSeq(u.val, isdigit)
    IN  IF Len(clean) = 11
        THEN LET cd == compute_upc_check_digit(clean)
             IN  IF cd.kind = "raise" THEN cd ELSE Str(clean \o cd.val)
        ELSE IF Len(clean) = 12
        THEN Str(clean)
        ELSE None

ensure_upc12(u) ==
    IF u.kind = "none" THEN None
    ELSE
    LET clean == SelectSeq(u.val, isdigit)
    IN  IF Len(clean) = 11
        THEN LET cd == compute_upc_check_digit(clean)
             IN  IF cd.kind = "raise" THEN cd ELSE Str(clean \o cd.val)
        ELSE IF Len(clean) = 12
        THEN LET payload == SliceTo(clean, 11)
                 expected == compute_upc_check_digit(payload)
             IN  IF expected.kind = "raise" THEN expected
                 ELSE IF <<clean[Len(clean)]>> = expected.val THEN Str(clean)
                 ELSE None
        ELSE None

(* ------------------------ truncation and wrapping --------------------- *)

\* the marker epl.py appends: three characters, U+00E2 U+20AC U+00A6
EplEllipsis == <<"U+00E2", "U+20AC", "U+00A6">>
\* the marker zpl.py appends: the one character U+2026
ZplEllipsis == <<"U+2026">>

epl_truncate_text(t, n) ==
    IF t.kind = "none" THEN Str(<<>>)
    ELSE IF Len(t.val) <= n THEN t
    ELSE Str(SliceTo(t.val, n - 1) \o EplEllipsis)

zpl_truncate_text(t, n) ==
    IF t.kind = "none" THEN Str(<<>>)
    ELSE IF Len(t.val) <= n THEN t
    ELSE Str(SliceTo(t.val, n - 1) \o ZplEllipsis)

\* c.isspace(), the separators of str.split()
isspace(c) == c \in {" ", "\t", "\n", "\r"}

RECURSIVE split_scan(_, _, _, _)
split_scan(s, i, words, cur) ==
    IF i > Len(s)
    THEN IF cur = <<>> THEN words ELSE Append(words, cur)
    ELSE IF isspace(s[i])
    THEN split_scan(s, i + 1, IF cur = <<>> THEN words ELSE Append(words, cur), <<>>)
    ELSE split_scan(s, i + 1, words, Append(cur, s[i]))

\* s.split(): the maximal runs of characters that are not whitespace
split(s) == split_scan(s, 1, <<>>, <<>>)

\* " ".join(l)
RECURSIVE join(_)
join(l) ==
    IF l = <<>> THEN <<>>
    ELSE IF Len(l) = 1 THEN l[1]
    ELSE l[1] \o <<" ">> \o join(Tail(l))

\* the loop over the words and the append after it; i is the next word
RECURSIVE wrap_loop(_, _, _, _, _)
wrap_loop(words, i, lines, current_line, n) ==
    IF i > Len(words)
    THEN IF current_line # <<>> THEN Append(lines, current_line) ELSE lines
    ELSE LET word == words[i]
         IN  IF Len(current_line \o <<" ">> \o word) <= n
             THEN wrap_loop(words, i + 1, lines,
                            IF current_line # <<>>
                            THEN current_line \o <<" ">> \o word ELSE word, n)
             ELSE wrap_loop(words, i + 1,
                            IF current_line # <<>>
                            THEN Append(lines, current_line) ELSE lines,
                            word, n)

\* the same keeping the last max_lines lines instead of the first
epl_wrap_text_keep_last(t, n, m) ==
    IF t.kind = "none" \/ t.val = <<>> THEN List(<< <<>> >>)
    ELSE IF Len(t.val) <= n THEN List(<<t.val>>)
    ELSE LET lines == wrap_loop(split(t.val), 1, <<>>, <<>>, n)
             keep == Len(SliceTo(lines, m))
         IN  List(SubSeq(lines, Len(lines) - keep + 1, Len(lines)))

epl_wrap_text(t, n, m) ==
    IF t.kind = "none" \/ t.val = <<>> THEN List(<< <<>> >>)
    ELSE IF Len(t.val) <= n THEN List(<<t.val>>)
    ELSE List(SliceTo(wrap_loop(split(t.val), 1, <<>>, <<>>, n), m))

preview_wrap_text(t, n) ==
    IF t.kind = "none" \/ t.val = <<>> THEN List(<< <<>> >>)
    ELSE IF Len(t.val) <= n THEN List(<<t.val>>)
    ELSE List(SliceTo(wrap_loop(split(t.val), 1, <<>>, <<>>, n), 2))

(* ------------------------------ geometry ------------------------------ *)

\* size keys are str values; the two keys of the table and one that is not
Size2x1 == <<"2", "x", "1">>
Size4x6 == <<"4", "x", "6">>
Size3x2 == <<"3", "x", "2">>

\* LABEL_SIZES_DOTS, the table of sizes in dots at 203 dpi
LABEL_SIZES_DOTS ==
    (Size2x1 :> [width_dots |-> 203 * 2, height_dots |-> 203 * 1])
    @@ (Size4x6 :> [width_dots |-> 203 * 4, height_dots |-> 203 * 6])

\* the same falling back to the first entry of the table
get_label_size_dots_first(size_key) ==
    IF size_key \in DOMAIN LABEL_SIZES_DOTS
    THEN LABEL_SIZES_DOTS[size_key]
    ELSE LABEL_SIZES_DOTS[Size2x1]

get_label_size_dots(size_key) ==
    IF size_key \in DOMAIN LABEL_SIZES_DOTS
    THEN LABEL_SIZES_DOTS[size_key]
    ELSE LABEL_SIZES_DOTS[Size4x6]

(* ------------------------------ encoding ------------------------------ *)

\* the characters of the model outside 7-bit ASCII
NonAscii ==
    {"U+00E9", "U+2026", "U+00E2", "U+20AC", "U+00A6", SuperscriptTwo, ArabicThree}

IsAscii(c) == c \notin NonAscii

\* s.encode("ascii", errors="ignore"): one byte per ASCII character, the
\* others dropped; a byte below 0x80 is written as its character
encode_ascii_ignore(s) == SelectSeq(s, IsAscii)

\* the UTF-8 bytes of one character; a byte from 0x80 up is written "0xNN"
utf8(c) ==
    CASE c = "U+00E9" -> <<"0xC3", "0xA9">>
      [] c = "U+2026" -> <<"0xE2", "0x80", "0xA6">>
      [] c = "U+00E2" -> <<"0xC3", "0xA2">>
      [] c = "U+20AC" -> <<"0xE2", "0x82", "0xAC">>
      [] c = "U+00A6" -> <<"0xC2", "0xA6">>
      [] c = SuperscriptTwo -> <<"0xC2", "0xB2">>
      [] c = ArabicThree -> <<"0xD9", "0xA3">>
      [] OTHER -> <<c>>

\* s.encode("utf-8")
RECURSIVE encode_utf8(_)
encode_utf8(s) == IF s = <<>> THEN <<>> ELSE utf8(Head(s)) \o encode_utf8(Tail(s))

HighBytes ==
    {"0xC3", "0xA9", "0xE2", "0x80", "0xA6", "0xA2", "0x82", "0xAC", "0xC2",
     "0xB2", "0xD9", "0xA3"}

(* -------------------------- layout configuration ---------------------- *)

\* LabelSettings as a record; _get_default_settings(label_size)
DefaultSettings2x1 ==
    [title_font |-> 4, text_font |-> 3, title_xy_mul_x |-> 1, title_xy_mul_y |-> 2,
     x_margin |-> 20, title_y |-> 6, item_y |-> 32, case_y |-> 52, barcode_y |-> 72,
     line_spacing |-> 24, title_max_chars |-> 24, item_max_chars |-> 36,
     case_max_chars |-> 36, max_title_lines |-> 2, show_separator |-> TRUE,
     separator_width |-> 200, separator_thickness |-> 2, barcode_height |-> 40,
     barcode_narrow |-> 3, barcode_wide |-> 6, barcode_hri |-> "B",
     orientation |-> "normal", preview_title_font_size |-> 24,
     preview_text_font_size |-> 22]

DefaultSettings4x6 ==
    [title_font |-> 4, text_font |-> 3, title_xy_mul_x |-> 1, title_xy_mul_y |-> 3,
     x_margin |-> 40, title_y |-> 40, item_y |-> 110, case_y |-> 160, barcode_y |-> 210,
     line_spacing |-> 24, title_max_chars |-> 24, item_max_chars |-> 36,
     case_max_chars |-> 36, max_title_lines |-> 2, show_separator |-> TRUE,
     separator_width |-> 200, separator_thickness |-> 2, barcode_height |-> 280,
     barcode_narrow |-> 3, barcode_wide |-> 6, barcode_hri |-> "B",
     orientation |-> "normal", preview_title_font_size |-> 28,
     preview_text_font_size |-> 32]

get_default_settings(label_size) ==
    IF label_size = Size2x1 THEN DefaultSettings2x1 ELSE DefaultSettings4x6

Settings(r) == [kind |-> "settings", val |-> r]

\* the local variables build_epl_label takes from the settings it is given
EplFromSettings(st) ==
    [title_font |-> st.title_font,
     title_xy_mul |-> <<st.title_xy_mul_x, st.title_xy_mul_y>>,
     text_font |-> st.text_font, text_xy_mul |-> <<1, 1>>,
     narrow |-> st.barcode_narrow, wide |-> st.barcode_wide,
     barcode_height |-> st.barcode_height, title_y |-> st.title_y,
     item_y |-> st.item_y, case_y |-> st.case_y, barcode_y |-> st.barcode_y,
     x_margin |-> st.x_margin, hri |-> st.barcode_hri,
     line_spacing |-> st.line_spacing, title_max_chars |-> st.title_max_chars,
     item_max_chars |-> st.item_max_chars, case_max_chars |-> st.case_max_chars,
     max_title_lines |-> st.max_title_lines, show_separator |-> st.show_separator,
     separator_width |-> st.separator_width,
     separator_thickness |-> st.separator_thickness]

\* the local variables build_epl_label sets when it is given no settings
EplFallback(size_key) ==
    IF size_key = Size2x1
    THEN [title_font |-> 4, title_xy_mul |-> <<1, 3>>, text_font |-> 3,
          text_xy_mul |-> <<1, 1>>, narrow |-> 3, wide |-> 6,
          barcode_height |-> 40, title_y |-> 6, item_y |-> 32, case_y |-> 52,
          barcode_y |-> 72, x_margin |-> 20, hri |-> "B", line_spacing |-> 24,
          title_max_chars |-> 24, item_max_chars |-> 36, case_max_chars |-> 36,
          max_title_lines |-> 2, show_separator |-> TRUE,
          separator_width |-> 200, separator_thickness |-> 2]
    ELSE [title_font |-> 4, title_xy_mul |-> <<1, 4>>, text_font |-> 3,
          text_xy_mul |-> <<1, 1>>, narrow |-> 3, wide |-> 6,
          barcode_height |-> 280, title_y |-> 40, item_y |-> 110, case_y |-> 160,
          barcode_y |-> 210, x_margin |-> 40, hri |-> "B", line_spacing |-> 24,
          title_max_chars |-> 24, item_max_chars |-> 36, case_max_chars |-> 36,
          max_title_lines |-> 2, show_separator |-> TRUE,
          separator_width |-> 200, separator_thickness |-> 2]

(* --------------------------- command generators ---------------------- *)

IntVal(n) == [kind |-> "int", val |-> n]
Bytes(b) == [kind |-> "bytes", val |-> b]

\* (v or ""), for v a str or None
OrEmpty(v) == IF v.kind = "none" THEN <<>> ELSE v.val

\* the same asking for more than two
MoreThanTwo(copies) == copies.kind = "int" /\ copies.val # 0 /\ copies.val > 2

\* the truth value of "copies and copies > 1", for copies an int or None
MoreThanOne(copies) == copies.kind = "int" /\ copies.val # 0 /\ copies.val > 1

\* A buffer is the sequence of its commands, one record for each command
\* line (EPL) or directive (ZPL): op is the command, role the statement that
\* emitted it, the numbers stand for their decimal text, and data are the
\* bytes of the text the command carries, after the encoding of the buffer.

\* the same with item, casepack and barcode left at their configured offsets
EplCommands_unshifted(c, dims, title_lines, safe_item, safe_case, upc_payload, copies) ==
    LET sep == c.show_separator /\ Len(title_lines) > 0 /\ title_lines[1] # <<>>
        shift == 0
        separator_y == c.title_y + (Len(title_lines) * c.line_spacing) + c.line_spacing
    IN  << [op |-> "N"],
           [op |-> "q", width |-> dims.width_dots],
           [op |-> "Q", height |-> dims.height_dots, gap |-> 24] >>
        \o [i \in 1..Len(title_lines) |->
               [op |-> "A", role |-> "title", x |-> c.x_margin,
                y |-> c.title_y + ((i - 1) * c.line_spacing),
                font |-> c.title_font, mul |-> c.title_xy_mul,
                data |-> encode_ascii_ignore(title_lines[i])]]
        \o (IF sep
            THEN << [op |-> "L", role |-> "separator", x |-> c.x_margin,
                     y |-> separator_y, x2 |-> c.x_margin + c.separator_width,
                     y2 |-> separator_y, thickness |-> c.separator_thickness] >>
            ELSE <<>>)
        \o << [op |-> "A", role |-> "item", x |-> c.x_margin,
               y |-> c.item_y + shift, font |-> c.text_font,
               mul |-> c.text_xy_mul, data |-> encode_ascii_ignore(safe_item)] >>
        \o (IF safe_case # <<>>
            THEN << [op |-> "A", role |-> "case", x |-> c.x_margin,
                     y |-> c.case_y + shift, font |-> c.text_font,
                     mul |-> c.text_xy_mul,
                     data |-> encode_ascii_ignore(
                         <<"C", "S", "/", "P", "K", ":", " ">> \o safe_case)] >>
            ELSE <<>>)
        \o (IF upc_payload # <<>> /\ Len(upc_payload) >= 11
            THEN << [op |-> "B", role |-> "barcode", x |-> c.x_margin,
                     y |-> c.barcode_y + shift, type |-> "1",
                     narrow |-> c.narrow, wide |-> c.wide,
                     height |-> c.barcode_height, hri |-> c.hri,
                     data |-> encode_ascii_ignore(upc_payload)] >>
            ELSE <<>>)
        \o (IF MoreThanOne(copies)
            THEN << [op |-> "P", role |-> "copies", n |-> copies.val] >>
            ELSE << [op |-> "P", role |-> "copies", n |-> 1] >>)

\* the EPL commands of a buffer, given the local variables c of the generator
EplCommands(c, dims, title_lines, safe_item, safe_case, upc_payload, copies) ==
    LET sep == c.show_separator /\ Len(title_lines) > 0 /\ title_lines[1] # <<>>
        shift == (Len(title_lines) - 1) * c.line_spacing
                 + (IF sep THEN c.line_spacing ELSE 0)
        separator_y == c.title_y + (Len(title_lines) * c.line_spacing) + c.line_spacing
    IN  << [op |-> "N"],
           [op |-> "q", width |-> dims.width_dots],
           [op |-> "Q", height |-> dims.height_dots, gap |-> 24] >>
        \o [i \in 1..Len(title_lines) |->
               [op |-> "A", role |-> "title", x |-> c.x_margin,
                y |-> c.title_y + ((i - 1) * c.line_spacing),
                font |-> c.title_font, mul |-> c.title_xy_mul,
                data |-> encode_ascii_ignore(title_lines[i])]]
        \o (IF sep
            THEN << [op |-> "L", role |-> "separator", x |-> c.x_margin,
                     y |-> separator_y, x2 |-> c.x_margin + c.separator_width,
                     y2 |-> separator_y, thickness |-> c.separator_thickness] >>
            ELSE <<>>)
        \o << [op |-> "A", role |-> "item", x |-> c.x_margin,
               y |-> c.item_y + shift, font |-> c.text_font,
               mul |-> c.text_xy_mul, data |-> encode_ascii_ignore(safe_item)] >>
        \o (IF safe_case # <<>>
            THEN << [op |-> "A", role |-> "case", x |-> c.x_margin,
                     y |-> c.case_y + shift, font |-> c.text_font,
                     mul |-> c.text_xy_mul,
                     data |-> encode_ascii_ignore(
                         <<"C", "S", "/", "P", "K", ":", " ">> \o safe_case)] >>
            ELSE <<>>)
        \o (IF upc_payload # <<>> /\ Len(upc_payload) >= 11
            THEN << [op |-> "B", role |-> "barcode", x |-> c.x_margin,
                     y |-> c.barcode_y + shift, type |-> "1",
                     narrow |-> c.narrow, wide |-> c.wide,
                     height |-> c.barcode_height, hri |-> c.hri,
                     data |-> encode_ascii_ignore(upc_payload)] >>
            ELSE <<>>)
        \o (IF MoreThanOne(copies)
            THEN << [op |-> "P", role |-> "copies", n |-> copies.val] >>
            ELSE << [op |-> "P", role |-> "copies", n |-> 1] >>)

build_epl_label(size_key, item_number, upc12, title, casepack, copies, settings) ==
    LET dims == get_label_size_dots(size_key)
        c == IF settings.kind # "none"
             THEN EplFromSettings(settings.val) ELSE EplFallback(size_key)
        safe_title == epl_truncate_text(Str(OrEmpty(title)), c.title_max_chars).val
        safe_item == epl_truncate_text(Str(OrEmpty(item_number)), c.item_max_chars).val
        safe_case == epl_truncate_text(Str(OrEmpty(casepack)), c.case_max_chars).val
        title_lines ==
            epl_wrap_text(Str(safe_title), c.title_max_chars, c.max_title_lines).val
        digits == SelectSeq(OrEmpty(upc12), isdigit)
        upc_payload ==
            IF Len(digits) >= 12 THEN Str(SliceTo(digits, 12))
            ELSE IF Len(digits) = 11
            THEN LET cd == compute_upc_check_digit(digits)
                 IN  IF cd.kind = "raise" THEN cd ELSE Str(digits \o cd.val)
            ELSE Str(digits)
    IN  IF upc_payload.kind = "raise" THEN upc_payload
        ELSE Bytes(EplCommands(c, dims, title_lines, safe_item, safe_case,
                               upc_payload.val, copies))

\* the typography build_zpl_label chooses for the size
ZplLayout(size_key) ==
    IF size_key = Size2x1
    THEN [title_font |-> <<30, 30>>, text_font |-> <<24, 24>>,
          barcode_height |-> 80, title_y |-> 10, item_y |-> 50, case_y |-> 80,
          barcode_y |-> 110]
    ELSE [title_font |-> <<48, 48>>, text_font |-> <<36, 36>>,
          barcode_height |-> 300, title_y |-> 40, item_y |-> 110, case_y |-> 160,
          barcode_y |-> 220]

\* f"{v}" for v a str or None
Format(v) == IF v.kind = "none" THEN <<"N", "o", "n", "e">> ELSE v.val

build_zpl_label(size_key, item_number, upc12, title, casepack, copies) ==
    LET dims == get_label_size_dots(size_key)
        c == ZplLayout(size_key)
        safe_title == zpl_truncate_text(Str(OrEmpty(title)), 36).val
        safe_item == zpl_truncate_text(Str(OrEmpty(item_number)), 36).val
        safe_case == zpl_truncate_text(Str(OrEmpty(casepack)), 36).val
    IN  Bytes(
        << [op |-> "^XA"],
           [op |-> "^PW", width |-> dims.width_dots],
           [op |-> "^LL", height |-> dims.height_dots],
           [op |-> "^LH", x |-> 0, y |-> 0],
           [op |-> "^CI", n |-> 28],
           [op |-> "^A0N", role |-> "title", x |-> 20, y |-> c.title_y,
            font |-> c.title_font, data |-> encode_utf8(safe_title)],
           [op |-> "^A0N", role |-> "item", x |-> 20, y |-> c.item_y,
            font |-> c.text_font,
            data |-> encode_utf8(<<"I", "t", "e", "m", ":", " ">> \o safe_item)],
           [op |-> "^A0N", role |-> "case", x |-> 20, y |-> c.case_y,
            font |-> c.text_font,
            data |-> encode_utf8(
                <<"C", "a", "s", "e", "p", "a", "c", "k", ":", " ">> \o safe_case)],
           [op |-> "^BY", w |-> 2, r |-> 2, h |-> 10],
           [op |-> "^BUN", role |-> "barcode", x |-> 20, y |-> c.barcode_y,
            height |-> c.barcode_height, data |-> encode_utf8(Format(upc12))] >>
        \o (IF MoreThanOne(copies)
            THEN << [op |-> "^PQ", role |-> "copies", n |-> copies.val] >>
            ELSE <<>>)
        \o << [op |-> "^XZ"] >>)

(* ------------------------------ print action -------------------------- *)

\* s.strip()
RECURSIVE lstrip(_)
lstrip(s) == IF s # <<>> /\ isspace(Head(s)) THEN lstrip(Tail(s)) ELSE s

RECURSIVE rstrip(_)
rstrip(s) ==
    IF s # <<>> /\ isspace(s[Len(s)]) THEN rstrip(SubSeq(s, 1, Len(s) - 1)) ELSE s

strip(s) == rstrip(lstrip(s))

\* sanitize_text(value, max_len)
sanitize_text(value, max_len) ==
    IF value.kind = "none" THEN <<>>
    ELSE LET ascii_only == encode_ascii_ignore(value.val)
         IN  IF Len(ascii_only) <= max_len THEN ascii_only
             ELSE SliceTo(ascii_only, max_len)

\* the value of a string of decimal digits
RECURSIVE decimal(_)
decimal(s) ==
    IF s = <<>> THEN 0 ELSE 10 * decimal(SubSeq(s, 1, Len(s) - 1)) + int(s[Len(s)])

\* the same reading the digits and not the sign
int_str_unsigned(s) ==
    LET t == strip(s)
        signed == t # <<>> /\ Head(t) \in {"-", "+"}
        body == IF signed THEN Tail(t) ELSE t
    IN  IF body = <<>> \/ \E i \in DOMAIN body : ~int_ok(body[i])
        THEN Raise("ValueError")
        ELSE IntVal(decimal(body))

\* int(s) for a str: blanks around, an optional sign, decimal digits
int_str(s) ==
    LET t == strip(s)
        signed == t # <<>> /\ Head(t) \in {"-", "+"}
        body == IF signed THEN Tail(t) ELSE t
    IN  IF body = <<>> \/ \E i \in DOMAIN body : ~int_ok(body[i])
        THEN Raise("ValueError")
        ELSE IntVal(IF Head(t) = "-" THEN 0 - decimal(body) ELSE decimal(body))

\* c.lower() for the characters of the printer names
lower(c) ==
    CASE c = "Z" -> "z" [] c = "L" -> "l" [] c = "P" -> "p" [] c = "D" -> "d"
      [] c = "M" -> "m" [] OTHER -> c

\* sub in s
Contains(s, sub) ==
    \E i \in 1..(Len(s) - Len(sub) + 1) : SubSeq(s, i, i + Len(sub) - 1) = sub

guess_printer_language(printer_name) ==
    IF printer_name = <<>> THEN "ZPL"
    ELSE LET lower_name == [i \in DOMAIN printer_name |-> lower(printer_name[i])]
         IN  IF \/ Contains(lower_name, <<"l", "p", "2", "8", "4", "4">>)
                \/ Contains(lower_name, <<"l", "p", " ", "2", "8", "4", "4">>)
                \/ Contains(lower_name, <<"2", "8", "4", "4">>)
             THEN "EPL"
             ELSE "ZPL"

\* _resolve_language(printer_name), selected the choice of the language box
resolve_language(selected, printer_name) ==
    IF selected = "Auto" THEN guess_printer_language(printer_name) ELSE selected

(* ------------------------------ preview ------------------------------- *)

Image(ops) == [kind |-> "image", val |-> ops]

\* the layout heuristics of the preview for the height of the label
PreviewLayout(height_dots) ==
    IF height_dots <= 203
    THEN [title_font |-> 32, text_font |-> 22, title_y |-> 10, item_y |-> 44,
          case_y |-> 70, barcode_y |-> 92, x_margin |-> 20,
          barcode_height |-> 60, font_size |-> 14]
    ELSE [title_font |-> 44, text_font |-> 32, title_y |-> 40, item_y |-> 110,
          case_y |-> 160, barcode_y |-> 210, x_margin |-> 40,
          barcode_height |-> 280, font_size |-> 20]

\* s.isdigit() for a str
str_isdigit(s) == s # <<>> /\ \A i \in DOMAIN s : isdigit(s[i])

\* An image is the sequence of what was drawn on it: op is the call, role
\* the statement that made it.  has_barcode is HAS_BARCODE and raised says
\* whether the rendering of the barcode raises.
render_label_preview(width_dots, height_dots, title, item_number, casepack, upc12, has_barcode, raised) ==
    LET c == PreviewLayout(height_dots)
        title_lines == preview_wrap_text(Str(OrEmpty(title)), 36).val
        sep == Len(title_lines) > 0 /\ title_lines[1] # <<>>
        shift == (Len(title_lines) - 1) * 24 + (IF sep THEN 16 ELSE 0)
        separator_y == c.title_y + (Len(title_lines) * 24) + 8
    IN  Image(
        [i \in 1..Len(title_lines) |->
            [op |-> "text", role |-> "title", x |-> c.x_margin,
             y |-> c.title_y + ((i - 1) * 24), font |-> c.title_font,
             data |-> title_lines[i]]]
        \o (IF sep
            THEN << [op |-> "line", role |-> "separator", x |-> c.x_margin,
                     y |-> separator_y, x2 |-> c.x_margin + 200,
                     y2 |-> separator_y, thickness |-> 2] >>
            ELSE <<>>)
        \o << [op |-> "text", role |-> "item", x |-> c.x_margin,
               y |-> c.item_y + shift, font |-> c.text_font,
               data |-> OrEmpty(item_number)] >>
        \o (IF OrEmpty(casepack) # <<>>
            THEN << [op |-> "text", role |-> "case", x |-> c.x_margin,
                     y |-> c.case_y + shift, font |-> c.text_font,
                     data |-> <<"C", "S", "/", "P", "K", ":", " ">> \o casepack.val] >>
            ELSE <<>>)
        \o (IF has_barcode /\ str_isdigit(OrEmpty(upc12)) /\ Len(OrEmpty(upc12)) = 12
            THEN IF raised THEN <<>>
                 ELSE << [op |-> "paste", role |-> "barcode", x |-> c.x_margin,
                          y |-> c.barcode_y + shift, height |-> c.barcode_height,
                          data |-> SubSeq(upc12.val, 1, 11)] >>
            ELSE IF strip(OrEmpty(upc12)) # <<>>
            THEN << [op |-> "text", role |-> "placeholder", x |-> c.x_margin,
                     y |-> c.barcode_y + shift, font |-> 16,
                     data |-> <<"UPC preview unavailable">>] >>
            ELSE <<>>))

(* ------------------------------ spooler ------------------------------- *)

\* the handle OpenPrinter returns
hPrinter == "hPrinter"

\* what send_raw gives to a call of win32print
ArgsOf(fn, printer_name, data, job_name) ==
    IF fn = "OpenPrinter" THEN <<printer_name>>
    ELSE IF fn = "StartDocPrinter" THEN <<hPrinter, 1, <<job_name, None, "RAW">> >>
    ELSE IF fn = "WritePrinter" THEN <<hPrinter, data>>
    ELSE <<hPrinter>>

\* the call send_raw makes after the call fn returned; "returned" is the end
\* of send_raw
then_call(fn) ==
    IF fn = "OpenPrinter" THEN "StartDocPrinter"
    ELSE IF fn = "StartDocPrinter" THEN "StartPagePrinter"
    ELSE IF fn = "StartPagePrinter" THEN "WritePrinter"
    ELSE IF fn = "WritePrinter" THEN "EndPagePrinter"
    ELSE IF fn = "EndPagePrinter" THEN "EndDocPrinter"
    ELSE IF fn = "EndDocPrinter" THEN "ClosePrinter"
    ELSE "returned"

\* the same with no finally around the page
finally_call_outer_only(fn) ==
    IF fn \in {"StartDocPrinter", "StartPagePrinter", "WritePrinter",
               "EndPagePrinter", "EndDocPrinter"}
    THEN "ClosePrinter"
    ELSE "raised"

\* the call of the finally clause that runs when the call fn raised; "raised"
\* is the exception leaving send_raw
finally_call(fn) ==
    IF fn \in {"StartPagePrinter", "WritePrinter", "EndPagePrinter"}
    THEN "EndDocPrinter"
    ELSE IF fn \in {"StartDocPrinter", "EndDocPrinter"} THEN "ClosePrinter"
    ELSE "raised"

\* where send_raw is after the call fn returned (ok) or raised, with the
\* exception pending before the call; and the exception pending afterwards
after_call(fn, ok, pending) ==
    IF ~ok THEN finally_call(fn)
    ELSE IF then_call(fn) = "returned" /\ pending # None THEN "raised"
    ELSE then_call(fn)

pending_after(fn, ok, pending) == IF ok THEN pending ELSE Raise(fn)



\* the defaults of the fields of the dataclass LabelSettings
LabelSettingsDefaults ==
    [title_font |-> 4, text_font |-> 3, title_xy_mul_x |-> 1, title_xy_mul_y |-> 2,
     x_margin |-> 20, title_y |-> 6, item_y |-> 32, case_y |-> 52, barcode_y |-> 72,
     line_spacing |-> 24, title_max_chars |-> 24, item_max_chars |-> 36,
     case_max_chars |-> 36, max_title_lines |-> 2, show_separator |-> TRUE,
     separator_width |-> 200, separator_thickness |-> 2, barcode_height |-> 40,
     barcode_narrow |-> 3, barcode_wide |-> 6, barcode_hri |-> "B",
     orientation |-> "normal", preview_title_font_size |-> 24,
     preview_text_font_size |-> 22]

Fields == DOMAIN LabelSettingsDefaults

BoolFields == {"show_separator"}
StrFields == {"barcode_hri", "orientation"}

\* _get_settings_key(printer_name, label_size)
get_settings_key(printer_name, label_size) == printer_name \o <<"_">> \o label_size

\* the JSON value json.dump writes for the value v of field f
json_dump(f, v) ==
    IF f \in BoolFields THEN [t |-> "bool", v |-> v]
    ELSE IF f \in StrFields THEN [t |-> "string", v |-> v]
    ELSE [t |-> "number", v |-> v]

\* the Python value json.load gives for a JSON value
json_load(j) == j.v

\* asdict(settings), as the JSON object written for it
asdict(st) == [f \in DOMAIN st |-> json_dump(f, st[f])]

\* LabelSettings(**settings_dict): TypeError for a key that is no field, the
\* default of the dataclass for a field that is missing
from_dict(d) ==
    IF DOMAIN d \subseteq Fields
    THEN Settings([f \in Fields |->
                      IF f \in DOMAIN d THEN json_load(d[f])
                      ELSE LabelSettingsDefaults[f]])
    ELSE Raise("TypeError")

\* the file: absent, a JSON object of key -> record, or text json.load cannot
\* read (the file opened with 'w' and not yet written to the end)
Absent == [kind |-> "absent", val |-> <<>>]
Json(data) == [kind |-> "json", val |-> data]
Torn == [kind |-> "torn", val |-> <<>>]

\* the settings_cache _load_settings builds from the file
load_settings(file) ==
    IF file.kind # "json" THEN <<>>
    ELSE LET good == {k \in DOMAIN file.val : from_dict(file.val[k]).kind = "settings"}
         IN  [k \in good |-> from_dict(file.val[k]).val]

\* _load_printer_settings(printer_name, label_size)
load_printer_settings(file, printer_name, label_size) ==
    LET key == get_settings_key(printer_name, label_size)
    IN  IF file.kind = "json" /\ key \in DOMAIN file.val
               /\ from_dict(file.val[key]).kind = "settings"
        THEN from_dict(file.val[key]).val
        ELSE get_default_settings(label_size)

\* the data _save_all_settings writes for a settings_cache
save_all_data(cache) == [k \in DOMAIN cache |-> asdict(cache[k])]

\* get_settings that also writes the settings_cache to the file
get_settings_persisting(cache, file, printer_name, label_size) ==
    LET key == get_settings_key(printer_name, label_size)
        after == IF key \in DOMAIN cache THEN cache
                 ELSE (key :> load_printer_settings(file, printer_name, label_size))
                          @@ cache
    IN  [cache |-> after, file |-> Json(save_all_data(after)),
         ret |-> Settings(after[key])]

\* get_settings(printer_name, label_size) of a manager with the settings_cache
\* cache on the file: the settings_cache and the file afterwards, and the
\* record returned
get_settings(cache, file, printer_name, label_size) ==
    LET key == get_settings_key(printer_name, label_size)
        after == IF key \in DOMAIN cache THEN cache
                 ELSE (key :> load_printer_settings(file, printer_name, label_size))
                          @@ cache
    IN  [cache |-> after, file |-> file, ret |-> Settings(after[key])]

\* save_settings(printer_name, label_size, settings) with no other manager
\* at work: the record replaces the one of the key and _save_all_settings
\* writes the whole settings_cache
save_settings(cache, file, printer_name, label_size, settings) ==
    LET key == get_settings_key(printer_name, label_size)
        after == (key :> settings) @@ cache
    IN  [cache |-> after, file |-> Json(save_all_data(after)), ret |-> None]

\* reset_to_default(printer_name, label_size)
reset_to_default(cache, file, printer_name, label_size) ==
    LET default_settings == get_default_settings(label_size)
        saved_to == save_settings(cache, file, printer_name, label_size,
                                  default_settings)
    IN  [cache |-> saved_to.cache, file |-> saved_to.file,
         ret |-> Settings(default_settings)]

(* ------------------------------ inputs -------------------------------- *)

UpcAlphabet == AsciiDigits \cup {"-", " ", "A", SuperscriptTwo, ArabicThree}

Payload03600029145 == <<"0", "3", "6", "0", "0", "0", "2", "9", "1", "4", "5">>

UpcBases ==
    { Payload03600029145,
      Payload03600029145 \o <<"2">>,
      <<"0", "1", "2", "3", "4", "5", "6", "7", "8", "9", "0">>,
      <<"0", "0", "0", "0", "0", "0", "0", "0", "0", "0", "0">>,
      <<"9", "9", "9", "9", "9", "9", "9", "9", "9", "9", "9">>,
      <<"6", "2", "9", "1", "0", "4", "1">>,
      <<>> }

\* the contents of the UPC entry after one keystroke: a character replaced,
\* inserted or deleted
Edit1(s) ==
    {[s EXCEPT ![i] = c] : i \in 1..Len(s), c \in UpcAlphabet}
    \cup {SubSeq(s, 1, i) \o <<c>> \o SubSeq(s, i + 1, Len(s)) :
              i \in 0..Len(s), c \in UpcAlphabet}
    \cup {SubSeq(s, 1, i - 1) \o SubSeq(s, i + 1, Len(s)) : i \in 1..Len(s)}

TextAlphabet == {"a", "b", " ", "\t"}

Texts ==
    {None} \cup {Str(s) : s \in UNION {[1..n -> TextAlphabet] : n \in 0..MaxTextLen}}

\* every caller passes a positive limit (24, 36, or a setting edited from 1)
CharLimits == 1..MaxChars

LineLimits == 0..MaxLines

\* n times the character c
Rep(c, n) == [i \in 1..n |-> c]

\* words of a title: half a line of the default limit 24, more than a line,
\* and a short word with an accented letter
TitleWords == {Rep("a", 12), Rep("b", 25), <<"U+00E9", "t">>}

RECURSIVE TitlesOf(_)
TitlesOf(n) ==
    IF n = 0 THEN {<<>>}
    ELSE LET shorter == TitlesOf(n - 1)
         IN  shorter \cup TitleWords
                 \cup {t \o <<" ">> \o w : t \in shorter \ {<<>>}, w \in TitleWords}

Titles == {None} \cup {Str(t) : t \in TitlesOf(MaxTitleWords)}

ItemNumbers ==
    {Str(<<"S", "K", "U", "-", "1", "0", "0">>), Str(<<"n", "U+00E9", "e">>)}

Casepacks == {Str(<<>>), Str(<<"1", "2">>)}

Upc6291041 == <<"6", "2", "9", "1", "0", "4", "1">>

Upc012345678905 == <<"0", "1", "2", "3", "4", "5", "6", "7", "8", "9", "0", "5">>

\* the upc12 argument of a generator: missing, empty, 7, 11 and 12 digits,
\* 12 digits with a wrong check digit, and 11 characters that str.isdigit()
\* accepts
Upc12Args ==
    {None, Str(<<>>), Str(Upc6291041), Str(Payload03600029145),
     Str(Payload03600029145 \o <<"2">>), Str(Upc012345678905),
     Str(Payload03600029145 \o <<"3">>),
     Str(SubSeq(Payload03600029145, 1, 10) \o <<SuperscriptTwo>>)}

CopiesArgs == {None} \cup {IntVal(k) : k \in (0 - 1)..MaxCopies}

SizeKeys == {Size2x1, Size4x6, Size3x2}

\* a layout edited in the settings dialog: one title line of 12 characters
\* and no separator
EditedSettings ==
    [DefaultSettings2x1 EXCEPT !.title_max_chars = 12, !.max_title_lines = 1,
                               !.show_separator = FALSE]

SettingsArgs(label_size) ==
    {None, Settings(get_default_settings(label_size)), Settings(EditedSettings)}

\* the installed printers, and no selection
Printers ==
    {<<>>, <<"Z", "e", "b", "r", "a", " ", "L", "P", "2", "8", "4", "4">>,
     <<"Z", "D", "e", "s", "i", "g", "n", "e", "r", " ", "Z", "M", "4", "0", "0">>}

Languages == {"Auto", "ZPL", "EPL"}

\* the decimal text of k, -9 <= k <= 9
DecimalText(k) == IF k < 0 THEN <<"-">> \o str(0 - k) ELSE str(k)

\* texts of the copies box that are not integers
NotIntegers == {<<>>, <<"a", "b", "c">>, <<"2", ".", "5">>}

CopiesTexts ==
    {DecimalText(k) : k \in (0 - MaxCopies)..MaxCopies}
        \cup NotIntegers \cup {<<" ", "2">>}

PrintTitles ==
    {<<>>, <<"W", "i", "d", "g", "e", "t">>, <<" ">> \o Rep("a", 12) \o <<" ">> \o Rep("a", 12),
     Rep("b", 25) \o <<" ">> \o Rep("a", 12)}

\* texts of the UPC entry
UpcTexts ==
    {<<>>, Upc6291041, Payload03600029145, Payload03600029145 \o <<"2">>,
     Payload03600029145 \o <<"3">>,
     SubSeq(Payload03600029145, 1, 10) \o <<SuperscriptTwo>>}

\* the managers that share the file
SettingsManagers == {"m1", "m2"}

StorePrinter == <<"L", "P", "2", "8", "4", "4">>

StoreSizes == {Size2x1, Size4x6}

\* a second layout edited in the settings dialog: title lines of 30 characters
WideSettings == [DefaultSettings4x6 EXCEPT !.title_max_chars = 30]

SaveChoices == {EditedSettings, WideSettings}

IdleTask == [op |-> "idle", key |-> <<>>, label_size |-> <<>>, new |-> None,
             old |-> None, data |-> <<>>, before |-> Absent]

NoRead == [kind |-> "none", key |-> <<>>, val |-> None, races |-> {}]

NoSave == [kind |-> "none", key |-> <<>>, label_size |-> <<>>, new |-> None,
           before |-> Absent]

\* no settings are read or saved
StoreIdle ==
    /\ store_file = Absent
    /\ caches = [m \in SettingsManagers |-> <<>>]
    /\ task = [m \in SettingsManagers |-> IdleTask]
    /\ observed = [m \in SettingsManagers |-> NoRead]
    /\ last_save = NoSave
    /\ saves = 0

\* printers and sizes of the settings dialog, names with an underscore among
\* them: "Zebra" with "LP_2x1" and "Zebra_LP" with "2x1"
Zebra == <<"Z", "e", "b", "r", "a">>
ZebraLP == Zebra \o <<"_", "L", "P">>
SizeLP2x1 == <<"L", "P", "_">> \o Size2x1

\* the pairs of printer_name and label_size the dialog is opened for
ConfigPairs == {<<Zebra, Size2x1>>, <<Zebra, Size4x6>>, <<Zebra, SizeLP2x1>>,
                <<ZebraLP, Size2x1>>}

\* records of a label_settings.json that is not what asdict wrote: one with a
\* key that is no field of LabelSettings, one with only some of the fields
UnknownFieldRecord == ("colour" :> [t |-> "string", v |-> "red"]) @@ asdict(WideSettings)
MissingFieldRecord == [f \in {"title_max_chars"} |-> json_dump(f, 30)]

MalformedRecords == {UnknownFieldRecord, MissingFieldRecord}

\* the files a manager is constructed on: none, and files with a record
\* written by save_settings for one key and a malformed record for another
ConfigFiles ==
    {Absent}
    \cup {Json((get_settings_key(Zebra, Size2x1) :> asdict(EditedSettings))
               @@ (get_settings_key(Zebra, Size4x6) :> bad)) :
              bad \in MalformedRecords}

\* the manager of the settings dialog
Manager == "m1"

\* the jobs _on_print sends: an EPL and a ZPL buffer for each number of copies
SendJobs ==
    {[data |-> build_epl_label(Size2x1, Str(<<"S", "K", "U">>),
                               Str(Payload03600029145 \o <<"2">>),
                               Str(<<"W", "i", "d", "g", "e", "t">>), Str(<<>>),
                               IntVal(k), None).val,
      job_name |-> "PrintLabel (EPL)"] : k \in 1..MaxCopies}
    \cup
    {[data |-> build_zpl_label(Size2x1, Str(<<"S", "K", "U">>),
                               Str(Payload03600029145 \o <<"2">>),
                               Str(<<"W", "i", "d", "g", "e", "t">>), Str(<<>>),
                               IntVal(k)).val,
      job_name |-> "PrintLabel (ZPL)"] : k \in 1..MaxCopies}

\* send_raw is not running
SendIdle ==
    /\ send_args = None
    /\ spool = <<>>
    /\ exc = None

(* --------------------------- specifications --------------------------- *)

\* no label is being generated or printed
GenIdle ==
    /\ cbo_size = Str(<<>>)
    /\ txt_item = Str(<<>>)
    /\ txt_title = Str(<<>>)
    /\ txt_case = Str(<<>>)
    /\ spn_copies = Str(<<"1">>)
    /\ arg_upc12 = None
    /\ arg_settings = None
    /\ cbo_printers = Str(<<>>)
    /\ cbo_language = "Auto"
    /\ sent = <<>>
    /\ saved = None
    /\ payload_file = None
    /\ message = "none"
    /\ HAS_BARCODE = TRUE
    /\ bc_render = "none"
    /\ SendIdle
    /\ StoreIdle

InitUpc ==
    /\ GenIdle
    /\ pc = "ready"
    /\ upc \in {None} \cup {Str(s) : s \in UpcBases}
    /\ edits = 0
    /\ text = None
    /\ max_chars = 0
    /\ max_lines = 0
    /\ ret = None

EditUpc ==
    /\ pc = "ready"
    /\ upc.kind = "str"
    /\ edits < MaxEdits
    /\ \E s \in Edit1(upc.val) : upc' = Str(s)
    /\ edits' = edits + 1
    /\ UNCHANGED <<pc, text, max_chars, max_lines, ret, genvars, storevars>>

Call_compute_upc_check_digit ==
    /\ pc = "ready"
    /\ upc.kind = "str"
    /\ pc' = "compute_upc_check_digit"
    /\ ret' = compute_upc_check_digit(upc.val)
    /\ UNCHANGED <<upc, edits, text, max_chars, max_lines, genvars, storevars>>

Call_ensure_upc12 ==
    /\ pc = "ready"
    /\ pc' = "ensure_upc12"
    /\ ret' = ensure_upc12(upc)
    /\ UNCHANGED <<upc, edits, text, max_chars, max_lines, genvars, storevars>>

NextUpc == EditUpc \/ Call_compute_upc_check_digit \/ Call_ensure_upc12

SpecUpc == InitUpc /\ [][NextUpc]_vars

InitText ==
    /\ GenIdle
    /\ pc = "ready"
    /\ upc = None
    /\ edits = 0
    /\ text \in Texts
    /\ max_chars \in CharLimits
    /\ max_lines \in LineLimits
    /\ ret = None

Call_epl_truncate_text ==
    /\ pc = "ready"
    /\ pc' = "epl_truncate_text"
    /\ ret' = epl_truncate_text(text, max_chars)
    /\ UNCHANGED <<upc, edits, text, max_chars, max_lines, genvars, storevars>>

Call_zpl_truncate_text ==
    /\ pc = "ready"
    /\ pc' = "zpl_truncate_text"
    /\ ret' = zpl_truncate_text(text, max_chars)
    /\ UNCHANGED <<upc, edits, text, max_chars, max_lines, genvars, storevars>>

Call_epl_wrap_text ==
    /\ pc = "ready"
    /\ pc' = "epl_wrap_text"
    /\ ret' = epl_wrap_text(text, max_chars, max_lines)
    /\ UNCHANGED <<upc, edits, text, max_chars, max_lines, genvars, storevars>>

Call_preview_wrap_text ==
    /\ pc = "ready"
    /\ pc' = "preview_wrap_text"
    /\ ret' = preview_wrap_text(text, max_chars)
    /\ UNCHANGED <<upc, edits, text, max_chars, max_lines, genvars, storevars>>

NextText ==
    \/ Call_epl_truncate_text
    \/ Call_zpl_truncate_text
    \/ Call_epl_wrap_text
    \/ Call_preview_wrap_text

SpecText == InitText /\ [][NextText]_vars

\* the generators called directly with keyword arguments
InitGen ==
    /\ pc = "ready"
    /\ upc = None
    /\ edits = 0
    /\ text = None
    /\ max_chars = 0
    /\ max_lines = 0
    /\ ret = None
    /\ cbo_size \in {Str(k) : k \in SizeKeys}
    /\ txt_item \in ItemNumbers
    /\ txt_title \in Titles
    /\ txt_case \in Casepacks
    /\ spn_copies \in CopiesArgs
    /\ arg_upc12 \in Upc12Args
    /\ arg_settings \in SettingsArgs(cbo_size.val)
    /\ cbo_printers = Str(<<>>)
    /\ cbo_language = "Auto"
    /\ sent = <<>>
    /\ saved = None
    /\ payload_file = None
    /\ message = "none"
    /\ HAS_BARCODE \in BOOLEAN
    /\ bc_render = "none"
    /\ SendIdle
    /\ StoreIdle

Dict(d) == [kind |-> "dict", val |-> d]

Call_get_label_size_dots ==
    /\ pc = "ready"
    /\ pc' = "get_label_size_dots"
    /\ ret' = Dict(get_label_size_dots(cbo_size.val))
    /\ UNCHANGED <<upc, edits, text, max_chars, max_lines, genvars, storevars>>

Call_build_epl_label ==
    /\ pc = "ready"
    /\ pc' = "build_epl_label"
    /\ ret' = build_epl_label(cbo_size.val, txt_item, arg_upc12, txt_title,
                              txt_case, spn_copies, arg_settings)
    /\ UNCHANGED <<upc, edits, text, max_chars, max_lines, genvars, storevars>>

Call_build_zpl_label ==
    /\ pc = "ready"
    /\ pc' = "build_zpl_label"
    /\ ret' = build_zpl_label(cbo_size.val, txt_item, arg_upc12, txt_title,
                              txt_case, spn_copies)
    /\ UNCHANGED <<upc, edits, text, max_chars, max_lines, genvars, storevars>>

\* a call of render_label_preview with the dots of the size and the fields of
\* the state; the rendering of the barcode, when it is reached, returns or
\* raises
Call_render_label_preview ==
    /\ pc = "ready"
    /\ pc' = "render_label_preview"
    /\ \E raised \in BOOLEAN :
           LET dims == get_label_size_dots(cbo_size.val)
               reached == /\ HAS_BARCODE
                          /\ str_isdigit(OrEmpty(arg_upc12))
                          /\ Len(OrEmpty(arg_upc12)) = 12
           IN  /\ reached \/ ~raised
               /\ bc_render' = IF ~reached THEN "none"
                                ELSE IF raised THEN "raised" ELSE "rendered"
               /\ ret' = render_label_preview(dims.width_dots, dims.height_dots,
                                              txt_title, txt_item, txt_case,
                                              arg_upc12, HAS_BARCODE, raised)
    /\ UNCHANGED <<upc, edits, text, max_chars, max_lines, cbo_size, txt_item,
                   txt_title, txt_case, spn_copies, arg_upc12, arg_settings,
                   cbo_printers, cbo_language, sent, saved, payload_file, message,
                   HAS_BARCODE, sendvars, storevars>>

NextGen ==
    \/ Call_get_label_size_dots
    \/ Call_build_epl_label
    \/ Call_build_zpl_label
    \/ Call_render_label_preview

SpecGen == InitGen /\ [][NextGen]_vars

\* the window with its fields filled in, before Print is pressed
InitPrint ==
    /\ pc = "ready"
    /\ upc \in {Str(s) : s \in UpcTexts}
    /\ edits = 0
    /\ text = None
    /\ max_chars = 0
    /\ max_lines = 0
    /\ ret = None
    /\ cbo_size \in {Str(Size2x1), Str(Size4x6), Str(<<>>)}
    /\ txt_item \in ItemNumbers
    /\ txt_title \in {Str(t) : t \in PrintTitles}
    /\ txt_case \in Casepacks
    /\ spn_copies \in {Str(s) : s \in CopiesTexts}
    /\ arg_upc12 = None
    /\ arg_settings = None
    /\ cbo_printers \in {Str(p) : p \in Printers}
    /\ cbo_language \in Languages
    /\ sent = <<>>
    /\ saved = None
    /\ payload_file = None
    /\ message = "none"
    /\ HAS_BARCODE = TRUE
    /\ bc_render = "none"
    /\ SendIdle
    /\ StoreIdle

\* _on_print: ret is the payload the generator returned, None when no
\* generator ran; writing the debug file, send_raw and
\* db.save_printer_settings each succeed or fail
OnPrint ==
    /\ pc = "ready"
    /\ pc' = "on_print"
    /\ LET printer_name == cbo_printers.val
           size_key == IF cbo_size.val # <<>> THEN cbo_size.val ELSE Size4x6
           item_number == sanitize_text(Str(strip(txt_item.val)), 64)
           title == sanitize_text(Str(strip(txt_title.val)), 64)
           casepack == sanitize_text(Str(strip(txt_case.val)), 32)
           upc_raw == strip(upc.val)
           upc12 == IF upc_raw # <<>> THEN ensure_upc12(Str(upc_raw)) ELSE Str(<<>>)
           parsed == int_str(spn_copies.val)
           copies == IF parsed.kind = "raise" THEN 1
                     ELSE IF parsed.val < 1 THEN 1 ELSE parsed.val
           lang == resolve_language(cbo_language, printer_name)
           payload ==
               IF lang = "EPL"
               THEN build_epl_label(size_key, Str(item_number), upc12, Str(title),
                                    Str(casepack), IntVal(copies), None)
               ELSE build_zpl_label(size_key, Str(item_number), upc12, Str(title),
                                    Str(casepack), IntVal(copies))
       IN  IF printer_name = <<>>
           THEN /\ message' = "showwarning Printer"
                /\ UNCHANGED <<ret, sent, saved, payload_file>>
           ELSE IF upc12.kind = "raise"
           THEN /\ message' = "uncaught ValueError"
                /\ UNCHANGED <<ret, sent, saved, payload_file>>
           ELSE IF upc_raw # <<>> /\ (upc12.kind = "none" \/ upc12.val = <<>>)
           THEN /\ message' = "showwarning UPC"
                /\ UNCHANGED <<ret, sent, saved, payload_file>>
           ELSE IF payload.kind = "raise"
           THEN /\ message' = "showerror"
                /\ ret' = payload
                /\ UNCHANGED <<sent, saved, payload_file>>
           ELSE /\ ret' = payload
                /\ payload_file' \in
                       {payload_file, [kind |-> "file", val |-> <<lang, payload.val>>]}
                /\ \/ /\ message' = "showerror"
                      /\ UNCHANGED <<sent, saved>>
                   \/ /\ sent' = Append(sent, [printer_name |-> printer_name,
                                                data |-> payload.val,
                                                job_name |-> lang])
                      /\ message' = "showinfo"
                      /\ saved' \in
                             {saved, [kind |-> "row",
                                      val |-> <<printer_name, cbo_language,
                                                cbo_size.val>>]}
    /\ UNCHANGED <<upc, edits, text, max_chars, max_lines, cbo_size, txt_item,
                   txt_title, txt_case, spn_copies, arg_upc12, arg_settings,
                   cbo_printers, cbo_language, HAS_BARCODE, bc_render,
                   sendvars, storevars>>

NextPrint == OnPrint

SpecPrint == InitPrint /\ [][NextPrint]_vars

\* two managers constructed when there was no file yet
InitSettings ==
    /\ GenIdle
    /\ pc = "ready"
    /\ upc = None
    /\ edits = 0
    /\ text = None
    /\ max_chars = 0
    /\ max_lines = 0
    /\ ret = None

notstore == <<pc, upc, edits, text, max_chars, max_lines, ret, genvars>>

\* SettingsManager(db_path): a new manager takes the place of m
NewSettingsManager ==
    \E m \in SettingsManagers :
        /\ task[m].op = "idle"
        /\ caches' = [caches EXCEPT ![m] = load_settings(store_file)]
        /\ observed' = [observed EXCEPT ![m] = NoRead]
        /\ UNCHANGED <<store_file, task, last_save, saves, notstore>>

\* get_settings(printer_name, label_size); races are the save_settings of the
\* other managers for the key that are under way when the file is read
Call_get_settings ==
    \E m \in SettingsManagers, label_size \in StoreSizes :
        LET key == get_settings_key(StorePrinter, label_size)
            cold == key \notin DOMAIN caches[m]
            loaded == load_printer_settings(store_file, StorePrinter, label_size)
            cache == IF cold THEN (key :> loaded) @@ caches[m] ELSE caches[m]
            writers == {w \in SettingsManagers \ {m} :
                            task[w].op = "save" /\ task[w].key = key}
        IN  /\ task[m].op = "idle"
            /\ caches' = [caches EXCEPT ![m] = cache]
            /\ observed' = [observed EXCEPT ![m] =
                   [kind |-> "read", key |-> key, val |-> Settings(cache[key]),
                    races |-> IF cold
                              THEN {[old |-> task[w].old, new |-> task[w].new] :
                                        w \in writers}
                              ELSE {}]]
            /\ UNCHANGED <<store_file, task, last_save, saves, notstore>>

\* the task of a manager that has begun save_settings
SaveTask(m, label_size, st) ==
    LET key == get_settings_key(StorePrinter, label_size)
    IN  [op |-> "save", key |-> key, label_size |-> label_size,
         new |-> Settings(st),
         old |-> Settings(load_printer_settings(store_file, StorePrinter,
                                                label_size)),
         data |-> save_all_data((key :> st) @@ caches[m]),
         before |-> store_file]

\* save_settings up to the open(db_path, 'w') of _save_all_settings, which
\* empties the file
Call_save_settings ==
    \E m \in SettingsManagers, label_size \in StoreSizes, st \in SaveChoices :
        /\ task[m].op = "idle"
        /\ saves < MaxSaves
        /\ saves' = saves + 1
        /\ caches' = [caches EXCEPT ![m] =
               (get_settings_key(StorePrinter, label_size) :> st) @@ caches[m]]
        /\ task' = [task EXCEPT ![m] = SaveTask(m, label_size, st)]
        /\ store_file' = Torn
        /\ UNCHANGED <<observed, last_save, notstore>>

\* reset_to_default(printer_name, label_size), up to the same point
Call_reset_to_default ==
    \E m \in SettingsManagers, label_size \in StoreSizes :
        LET default_settings == get_default_settings(label_size)
        IN  /\ task[m].op = "idle"
            /\ saves < MaxSaves
            /\ saves' = saves + 1
            /\ caches' = [caches EXCEPT ![m] =
                   (get_settings_key(StorePrinter, label_size) :> default_settings)
                       @@ caches[m]]
            /\ task' = [task EXCEPT ![m] = SaveTask(m, label_size, default_settings)]
            /\ store_file' = Torn
            /\ UNCHANGED <<observed, last_save, notstore>>

\* the rest of save_settings: json.dump and the close of the file
Return_save_settings ==
    \E m \in SettingsManagers :
        /\ task[m].op = "save"
        /\ store_file' = Json(task[m].data)
        /\ last_save' = [kind |-> "saved", key |-> task[m].key,
                         label_size |-> task[m].label_size,
                         new |-> task[m].new, before |-> task[m].before]
        /\ task' = [task EXCEPT ![m] = IdleTask]
        /\ UNCHANGED <<caches, observed, saves, notstore>>

NextSettings ==
    \/ NewSettingsManager
    \/ Call_get_settings
    \/ Call_save_settings
    \/ Call_reset_to_default
    \/ Return_save_settings

SpecSettings == InitSettings /\ [][NextSettings]_vars

\* one SettingsManager constructed on a file, its dialog, and a label whose
\* fields are filled in
InitConfig ==
    /\ pc = "ready"
    /\ upc = None
    /\ edits = 0
    /\ text = None
    /\ max_chars = 0
    /\ max_lines = 0
    /\ ret = None
    /\ cbo_size = Str(Size2x1)
    /\ txt_item = Str(<<"S", "K", "U", "-", "1", "0", "0">>)
    /\ txt_title = Str(Rep("a", 12) \o <<" ">> \o Rep("a", 12))
    /\ txt_case = Str(<<"1", "2">>)
    /\ spn_copies = IntVal(1)
    /\ arg_upc12 = Str(Payload03600029145 \o <<"2">>)
    /\ arg_settings = None
    /\ cbo_printers = Str(Zebra)
    /\ cbo_language = "Auto"
    /\ sent = <<>>
    /\ saved = None
    /\ payload_file = None
    /\ message = "none"
    /\ HAS_BARCODE = TRUE
    /\ bc_render = "none"
    /\ SendIdle
    /\ store_file \in ConfigFiles
    /\ caches = [m \in SettingsManagers |-> load_settings(store_file)]
    /\ task = [m \in SettingsManagers |-> IdleTask]
    /\ observed = [m \in SettingsManagers |-> NoRead]
    /\ last_save = NoSave
    /\ saves = 0

configfixed == <<upc, edits, text, max_chars, max_lines, txt_item, txt_title,
                 txt_case, spn_copies, arg_upc12, cbo_language, sent, saved,
                 payload_file, message, HAS_BARCODE, bc_render, sendvars, task,
                 observed, last_save>>

\* SettingsManager(db_path) anew on the file, as at the next start
Config_SettingsManager ==
    /\ caches' = [caches EXCEPT ![Manager] = load_settings(store_file)]
    /\ arg_settings' = None
    /\ UNCHANGED <<pc, ret, cbo_printers, cbo_size, store_file, saves, configfixed>>

\* the dialog opened for a printer and a size: get_settings, whose record is
\* the one handed to the generator from then on
Config_get_settings ==
    \E pair \in ConfigPairs :
        LET printer_name == pair[1]
            label_size == pair[2]
            got == get_settings(caches[Manager], store_file, printer_name,
                                label_size)
        IN  /\ caches' = [caches EXCEPT ![Manager] = got.cache]
            /\ store_file' = got.file
            /\ arg_settings' = got.ret
            /\ cbo_printers' = Str(printer_name)
            /\ cbo_size' = Str(label_size)
            /\ UNCHANGED <<pc, ret, saves, configfixed>>

\* the dialog's Save for the printer and size it was opened for
Config_save_settings ==
    \E settings \in SaveChoices :
        LET done == save_settings(caches[Manager], store_file, cbo_printers.val,
                                  cbo_size.val, settings)
        IN  /\ arg_settings.kind = "settings"
            /\ saves < MaxSaves
            /\ saves' = saves + 1
            /\ caches' = [caches EXCEPT ![Manager] = done.cache]
            /\ store_file' = done.file
            /\ arg_settings' = Settings(settings)
            /\ UNCHANGED <<pc, ret, cbo_printers, cbo_size, configfixed>>

\* the dialog's Reset to Default
Config_reset_to_default ==
    LET done == reset_to_default(caches[Manager], store_file, cbo_printers.val,
                                 cbo_size.val)
    IN  /\ arg_settings.kind = "settings"
        /\ saves < MaxSaves
        /\ saves' = saves + 1
        /\ caches' = [caches EXCEPT ![Manager] = done.cache]
        /\ store_file' = done.file
        /\ arg_settings' = done.ret
        /\ UNCHANGED <<pc, ret, cbo_printers, cbo_size, configfixed>>

NextConfig ==
    \/ Config_SettingsManager
    \/ Config_get_settings
    \/ Config_save_settings
    \/ Config_reset_to_default
    \/ Call_build_epl_label
    \/ Call_render_label_preview

SpecConfig == InitConfig /\ [][NextConfig]_vars

\* send_raw(printer_name, data, job_name) called for a selected printer
InitSend ==
    /\ pc = "OpenPrinter"
    /\ upc = None
    /\ edits = 0
    /\ text = None
    /\ max_chars = 0
    /\ max_lines = 0
    /\ ret = None
    /\ cbo_size = Str(<<>>)
    /\ txt_item = Str(<<>>)
    /\ txt_title = Str(<<>>)
    /\ txt_case = Str(<<>>)
    /\ spn_copies = Str(<<"1">>)
    /\ arg_upc12 = None
    /\ arg_settings = None
    /\ cbo_printers = Str(<<>>)
    /\ cbo_language = "Auto"
    /\ sent = <<>>
    /\ saved = None
    /\ payload_file = None
    /\ message = "none"
    /\ HAS_BARCODE = TRUE
    /\ bc_render = "none"
    /\ \E printer_name \in Printers \ {<<>>}, job \in SendJobs :
           send_args = [printer_name |-> printer_name, data |-> job.data,
                        job_name |-> job.job_name]
    /\ spool = <<>>
    /\ exc = None
    /\ StoreIdle

sendfixed == <<upc, edits, text, max_chars, max_lines, ret, cbo_size, txt_item,
               txt_title, txt_case, spn_copies, arg_upc12, arg_settings,
               cbo_printers, cbo_language, sent, saved, payload_file, message,
               HAS_BARCODE, bc_render, send_args, storevars>>

\* the record of a call of win32print made by send_raw
SpoolCall(fn, ok) ==
    [fn |-> fn, ok |-> ok,
     args |-> ArgsOf(fn, send_args.printer_name, send_args.data,
                     send_args.job_name)]

\* each call of win32print returns or raises win32print.error
OpenPrinter ==
    /\ pc = "OpenPrinter"
    /\ \E ok \in BOOLEAN :
           /\ spool' = Append(spool, SpoolCall("OpenPrinter", ok))
           /\ exc' = pending_after("OpenPrinter", ok, exc)
           /\ pc' = after_call("OpenPrinter", ok, exc)
    /\ UNCHANGED sendfixed

StartDocPrinter ==
    /\ pc = "StartDocPrinter"
    /\ \E ok \in BOOLEAN :
           /\ spool' = Append(spool, SpoolCall("StartDocPrinter", ok))
           /\ exc' = pending_after("StartDocPrinter", ok, exc)
           /\ pc' = after_call("StartDocPrinter", ok, exc)
    /\ UNCHANGED sendfixed

StartPagePrinter ==
    /\ pc = "StartPagePrinter"
    /\ \E ok \in BOOLEAN :
           /\ spool' = Append(spool, SpoolCall("StartPagePrinter", ok))
           /\ exc' = pending_after("StartPagePrinter", ok, exc)
           /\ pc' = after_call("StartPagePrinter", ok, exc)
    /\ UNCHANGED sendfixed

WritePrinter ==
    /\ pc = "WritePrinter"
    /\ \E ok \in BOOLEAN :
           /\ spool' = Append(spool, SpoolCall("WritePrinter", ok))
           /\ exc' = pending_after("WritePrinter", ok, exc)
           /\ pc' = after_call("WritePrinter", ok, exc)
    /\ UNCHANGED sendfixed

EndPagePrinter ==
    /\ pc = "EndPagePrinter"
    /\ \E ok \in BOOLEAN :
           /\ spool' = Append(spool, SpoolCall("EndPagePrinter", ok))
           /\ exc' = pending_after("EndPagePrinter", ok, exc)
           /\ pc' = after_call("EndPagePrinter", ok, exc)
    /\ UNCHANGED sendfixed

EndDocPrinter ==
    /\ pc = "EndDocPrinter"
    /\ \E ok \in BOOLEAN :
           /\ spool' = Append(spool, SpoolCall("EndDocPrinter", ok))
           /\ exc' = pending_after("EndDocPrinter", ok, exc)
           /\ pc' = after_call("EndDocPrinter", ok, exc)
    /\ UNCHANGED sendfixed

ClosePrinter ==
    /\ pc = "ClosePrinter"
    /\ \E ok \in BOOLEAN :
           /\ spool' = Append(spool, SpoolCall("ClosePrinter", ok))
           /\ exc' = pending_after("ClosePrinter", ok, exc)
           /\ pc' = after_call("ClosePrinter", ok, exc)
    /\ UNCHANGED sendfixed

NextSend ==
    \/ OpenPrinter
    \/ StartDocPrinter
    \/ StartPagePrinter
    \/ WritePrinter
    \/ EndPagePrinter
    \/ EndDocPrinter
    \/ ClosePrinter

SpecSend == InitSend /\ [][NextSend]_vars

(* ------------------------------ claims -------------------------------- *)

IsPrefix(a, b) == Len(a) <= Len(b) /\ SubSeq(b, 1, Len(a)) = a

\* the value of an ASCII decimal digit
DigitValue(c) == CHOOSE n \in 0..9 : str(n) = <<c>>

IsAscii11(p) == Len(p) = 11 /\ \A i \in 1..11 : p[i] \in AsciiDigits

\* the UPC-A check digit of 11 ASCII digits, position by position
StandardCheckDigit(p) ==
    LET d(i) == DigitValue(p[i])
        total == 3 * (d(1) + d(3) + d(5) + d(7) + d(9) + d(11))
                 + (d(2) + d(4) + d(6) + d(8) + d(10))
    IN  (10 - (total % 10)) % 10

\* C1: for every payload of 11 ASCII digits compute_upc_check_digit returns
\* the standard UPC-A check digit, (10 - (3 * odd positions + even positions)
\* mod 10) mod 10, one digit 0..9; payload 03600029145 gives 2.
C1_CheckDigitStandard ==
    (pc = "compute_upc_check_digit" /\ IsAscii11(upc.val)) =>
        /\ ret = Str(str(StandardCheckDigit(upc.val)))
        /\ Len(ret.val) = 1 /\ ret.val[1] \in AsciiDigits
        /\ (upc.val = Payload03600029145 => ret = Str(<<"2">>))

C1_Witness ==
    /\ pc = "compute_upc_check_digit"
    /\ upc.val = Payload03600029145
    /\ ret = Str(<<"2">>)

\* the digits of an input, as the digit filter of ensure_upc12 keeps them
Digits(s) == SelectSeq(s, isdigit)

\* C2: for every input whose digit-stripped form has exactly 11 digits,
\* ensure_upc12 returns 12 digits: those 11 in order, then their check digit.
C2_ElevenDigitsCompleted ==
    (pc = "ensure_upc12" /\ upc.kind = "str" /\ Len(Digits(upc.val)) = 11) =>
        /\ ret.kind = "str"
        /\ Len(ret.val) = 12
        /\ SubSeq(ret.val, 1, 11) = Digits(upc.val)
        /\ \A i \in 1..12 : isdigit(ret.val[i])
        /\ <<ret.val[12]>> = compute_upc_check_digit(Digits(upc.val)).val

\* C3: ensure_upc12 returns None for every 12-digit input whose 12th digit is
\* not the check digit of the first 11, the digits unchanged when it is, and
\* None for every digit count other than 11 or 12.
C3_TwelveDigitsVerified ==
    (pc = "ensure_upc12" /\ upc.kind = "str") =>
        LET clean == Digits(upc.val)
        IN  /\ Len(clean) = 12 =>
                 IF <<clean[12]>> = compute_upc_check_digit(SubSeq(clean, 1, 11)).val
                 THEN ret = Str(clean)
                 ELSE ret = None
            /\ Len(clean) \notin {11, 12} => ret = None

\* C4: ensure_upc12 removes the characters its digit filter rejects before it
\* looks at the length: the result for an input is the result for that input
\* with those characters removed, so separators among the digits of
\* 03600029145 still give 036000291452.
C4_StripBeforeLength ==
    (pc = "ensure_upc12" /\ upc.kind = "str") =>
        /\ ret = ensure_upc12(Str(Digits(upc.val)))
        /\ Digits(upc.val) = Payload03600029145 =>
               ret = Str(Payload03600029145 \o <<"2">>)

C4_Witness ==
    /\ pc = "ensure_upc12"
    /\ upc.kind = "str"
    /\ \E i \in 1..Len(upc.val) : upc.val[i] \in {"-", " "}
    /\ Digits(upc.val) = Payload03600029145
    /\ ret = Str(Payload03600029145 \o <<"2">>)

\* C5: ensure_upc12 is total: for every input it returns 12 digits or None
\* and never raises.
C5_EnsureTotal ==
    pc = "ensure_upc12" =>
        \/ ret = None
        \/ /\ ret.kind = "str"
           /\ Len(ret.val) = 12
           /\ \A i \in 1..12 : isdigit(ret.val[i])

\* C6: the result of truncate_text, of epl.py and of zpl.py, is never longer
\* than max_chars.
C6_TruncateWithinLimit ==
    pc \in {"epl_truncate_text", "zpl_truncate_text"} => Len(ret.val) <= max_chars

\* C7: truncate_text returns the text unchanged when it has at most max_chars
\* characters, and otherwise its first max_chars - 1 characters followed by
\* the single ellipsis character U+2026, the last character of the result.
C7_TruncateShape ==
    (pc \in {"epl_truncate_text", "zpl_truncate_text"} /\ text.kind = "str") =>
        IF Len(text.val) <= max_chars
        THEN ret = text
        ELSE /\ ret.kind = "str"
             /\ Len(ret.val) >= 1
             /\ ret.val[Len(ret.val)] = "U+2026"
             /\ ret.val = SubSeq(text.val, 1, max_chars - 1) \o <<"U+2026">>

\* the line limit of the wrap_text that was called
LineLimit == IF pc = "preview_wrap_text" THEN 2 ELSE max_lines

\* C8: wrap_text returns at most max_lines lines, for every text.
C8_WrapLineCount ==
    pc \in {"epl_wrap_text", "preview_wrap_text"} => Len(ret.val) <= LineLimit

\* C9: every line wrap_text returns has at most max_chars characters.
C9_WrapLineLength ==
    pc \in {"epl_wrap_text", "preview_wrap_text"} =>
        \A i \in 1..Len(ret.val) : Len(ret.val[i]) <= max_chars

\* the words of the text handed to wrap_text
InputWords == IF text.kind = "str" THEN split(text.val) ELSE <<>>

\* C10: the lines wrap_text returns, joined by single spaces and split on
\* whitespace, are a prefix, word for word, of the whitespace-split text;
\* words are missing only from the end and only when the lines already
\* reach the line limit.
C10_WrapWordsPrefix ==
    pc \in {"epl_wrap_text", "preview_wrap_text"} =>
        LET out == split(join(ret.val))
        IN  /\ IsPrefix(out, InputWords)
            /\ Len(out) < Len(InputWords) => Len(ret.val) >= LineLimit

C10_Witness ==
    /\ pc = "epl_wrap_text"
    /\ Len(ret.val) = 2
    /\ Len(split(join(ret.val))) >= 2
    /\ Len(split(join(ret.val))) < Len(InputWords)

(* ------------------------------ geometry claims ----------------------- *)

\* C11: get_label_size_dots returns the table entry on an exact key match
\* and, for every unknown size key, the 4x6-inch entry of 406x1218 dots,
\* without ever failing.
C11_UnknownKeyGets406x1218 ==
    pc = "get_label_size_dots" =>
        /\ ret.kind = "dict"
        /\ cbo_size.val \in DOMAIN LABEL_SIZES_DOTS =>
               ret.val = LABEL_SIZES_DOTS[cbo_size.val]
        /\ cbo_size.val \notin DOMAIN LABEL_SIZES_DOTS =>
               ret.val = [width_dots |-> 406, height_dots |-> 1218]

\* C11, amended: get_label_size_dots returns the table entry on an exact key
\* match and, for every unknown size key, the 4x6-inch entry, which is
\* 812x1218 dots (4 and 6 inches at 203 dpi), without ever failing.
C11_UnknownKeyGets812x1218 ==
    pc = "get_label_size_dots" =>
        /\ ret.kind = "dict"
        /\ cbo_size.val \in DOMAIN LABEL_SIZES_DOTS =>
               ret.val = LABEL_SIZES_DOTS[cbo_size.val]
        /\ cbo_size.val \notin DOMAIN LABEL_SIZES_DOTS =>
               ret.val = [width_dots |-> 812, height_dots |-> 1218]

C11_Witness ==
    /\ pc = "get_label_size_dots"
    /\ cbo_size.val = Size3x2
    /\ ret = Dict([width_dots |-> 812, height_dots |-> 1218])

(* ------------------------------ generator claims ---------------------- *)

\* the commands of the buffer a generator returned
Commands == IF ret.kind = "bytes" THEN ret.val ELSE <<>>

RoleOf(cmd) == IF "role" \in DOMAIN cmd THEN cmd.role ELSE "none"

\* the commands of the buffer emitted for a role
WithRole(role) == SelectSeq(Commands, LAMBDA cmd : RoleOf(cmd) = role)

InGenerator == pc \in {"build_epl_label", "build_zpl_label"}

\* the digits the generators and ensure_upc12 find in the upc12 argument
UpcDigits == Digits(OrEmpty(arg_upc12))

\* C13: when the UPC has fewer than 11 digits (7 digits, or empty), the
\* buffer of either generator contains the title and item commands, and the
\* casepack command of a casepack that is not empty, but no barcode
\* directive, and generation does not abort.
C13_NoBarcodeWithoutUpc ==
    (InGenerator /\ Len(UpcDigits) < 11) =>
        /\ ret.kind = "bytes"
        /\ Len(WithRole("title")) >= 1
        /\ Len(WithRole("item")) = 1
        /\ OrEmpty(txt_case) # <<>> => Len(WithRole("case")) = 1
        /\ Len(WithRole("barcode")) = 0
        /\ \A i \in DOMAIN Commands : Commands[i].op \notin {"B", "^BUN", "^BY"}

\* 12 ASCII digits of which the last is the UPC-A check digit of the others
ValidUpc12(u) ==
    /\ u.kind = "str"
    /\ Len(u.val) = 12
    /\ IsAscii11(SubSeq(u.val, 1, 11))
    /\ <<u.val[12]>> = str(StandardCheckDigit(SubSeq(u.val, 1, 11)))

\* C14: for a UPC of 12 digits with a correct check digit and any copies > 1
\* the buffer of either generator contains exactly one copy-count directive,
\* carrying the value copies, and exactly one barcode directive, carrying the
\* 12 digits.
C14_OneCopiesOneBarcode ==
    (InGenerator /\ ValidUpc12(arg_upc12)
         /\ spn_copies.kind = "int" /\ spn_copies.val > 1) =>
        /\ ret.kind = "bytes"
        /\ Len(WithRole("copies")) = 1
        /\ WithRole("copies")[1].n = spn_copies.val
        /\ Len(WithRole("barcode")) = 1
        /\ WithRole("barcode")[1].data = arg_upc12.val

C14_Witness ==
    /\ pc = "build_epl_label"
    /\ cbo_size.val = Size4x6
    /\ arg_upc12 = Str(Payload03600029145 \o <<"2">>)
    /\ spn_copies = IntVal(3)
    /\ WithRole("copies") = << [op |-> "P", role |-> "copies", n |-> 3] >>
    /\ Len(WithRole("barcode")) = 1
    /\ WithRole("barcode")[1].data = Payload03600029145 \o <<"2">>

\* the layout build_epl_label works with
EplLayout ==
    IF arg_settings.kind # "none"
    THEN EplFromSettings(arg_settings.val) ELSE EplFallback(cbo_size.val)

\* no settings are passed, or the default settings of the size
DefaultConfiguration ==
    arg_settings \in {None, Settings(get_default_settings(cbo_size.val))}

\* C15: with the default configuration (max_title_lines = 2) every title
\* longer than title_max_chars is emitted as exactly 2 title lines, and the
\* item command is at item_y + line_spacing, plus the separator gap (one more
\* line_spacing) when the separator is enabled.
C15_LongTitleTwoLines ==
    (pc = "build_epl_label" /\ ret.kind = "bytes" /\ DefaultConfiguration
         /\ Len(OrEmpty(txt_title)) > EplLayout.title_max_chars) =>
        /\ Len(WithRole("title")) = 2
        /\ WithRole("item")[1].y =
               EplLayout.item_y + EplLayout.line_spacing
               + (IF EplLayout.show_separator THEN EplLayout.line_spacing ELSE 0)

\* the EPL buffer for the fields, size and settings of the state
EplOfSameFields ==
    build_epl_label(cbo_size.val, txt_item, arg_upc12, txt_title, txt_case,
                    spn_copies, arg_settings)

RolesIn(cmds, role) == SelectSeq(cmds, LAMBDA cmd : RoleOf(cmd) = role)

\* C16: for identical fields and size build_zpl_label and build_epl_label
\* wrap the title into the same number of lines and shift the item position
\* by the same cascade (title line count and separator), so that switching
\* language changes only directive syntax.
C16_SameLayoutInBothLanguages ==
    (pc = "build_zpl_label" /\ arg_settings = None
         /\ EplOfSameFields.kind = "bytes") =>
        LET epl == EplOfSameFields.val
        IN  /\ Len(WithRole("title")) = Len(RolesIn(epl, "title"))
            /\ WithRole("item")[1].y - ZplLayout(cbo_size.val).item_y
                   = RolesIn(epl, "item")[1].y - EplFallback(cbo_size.val).item_y

\* the bytes of text the command carries
DataOf(cmd) == IF "data" \in DOMAIN cmd THEN cmd.data ELSE <<>>

SevenBit(b) == b \notin HighBytes /\ b \notin NonAscii

\* C17: for every input, titles, item numbers and casepacks with non-ASCII
\* characters and fields long enough to be truncated among them, each
\* generator returns a buffer, and every byte of the buffer is 7-bit ASCII.
C17_AsciiOnlyOutput ==
    InGenerator =>
        /\ ret.kind = "bytes"
        /\ \A i \in DOMAIN Commands :
               \A j \in DOMAIN DataOf(Commands[i]) : SevenBit(DataOf(Commands[i])[j])

\* C27: build_epl_label emits a barcode directive if and only if the UPC
\* input has at least 11 digits; the payload of the directive is 12 digits
\* of which the 12th is the UPC-A check digit of the first 11, and it is the
\* result of ensure_upc12 whenever ensure_upc12 returns one.
C27_EplBarcodePayloadValid ==
    pc = "build_epl_label" =>
        /\ ret.kind = "bytes"
        /\ Len(WithRole("barcode")) = (IF Len(UpcDigits) >= 11 THEN 1 ELSE 0)
        /\ \A i \in DOMAIN WithRole("barcode") :
               /\ ValidUpc12(Str(WithRole("barcode")[i].data))
               /\ ensure_upc12(arg_upc12).kind = "str" =>
                      Str(WithRole("barcode")[i].data) = ensure_upc12(arg_upc12)

\* C28: build_epl_label without settings returns the same buffer as
\* build_epl_label with the default settings of the size, for the 2x1 tier
\* and for the tier of 4x6 and of unknown sizes.
C28_FallbackEqualsDefaults ==
    (pc = "build_epl_label" /\ arg_settings = None) =>
        ret = build_epl_label(cbo_size.val, txt_item, arg_upc12, txt_title,
                              txt_case, spn_copies,
                              Settings(get_default_settings(cbo_size.val)))

(* ------------------------------ print claims -------------------------- *)

\* the text of the copies box stands for zero, for a negative number, or for
\* no integer
CopiesBelowOne ==
    /\ spn_copies.kind = "str"
    /\ spn_copies.val \in
           {DecimalText(k) : k \in (0 - MaxCopies)..0} \cup NotIntegers

\* C20: copies below 1 are clamped to 1: when the copies box holds zero, a
\* negative number or a text that is no integer, the job generated by Print
\* prints exactly one label: the EPL buffer has exactly the one copy-count
\* directive P1 and the ZPL buffer has no copy-count directive.
C20_CopiesClampedToOne ==
    (pc = "on_print" /\ ret.kind = "bytes" /\ CopiesBelowOne) =>
        LET lang == resolve_language(cbo_language, cbo_printers.val)
        IN  /\ lang = "EPL" =>
                   WithRole("copies") = << [op |-> "P", role |-> "copies", n |-> 1] >>
            /\ lang # "EPL" => WithRole("copies") = <<>>
            /\ \A i \in DOMAIN Commands : Commands[i].op \in {"P", "^PQ"} =>
                   RoleOf(Commands[i]) = "copies"

C20_Witness ==
    /\ pc = "on_print"
    /\ spn_copies = Str(<<"a", "b", "c">>)
    /\ message = "showinfo"
    /\ Len(sent) = 1
    /\ sent[1].job_name = "EPL"
    /\ RolesIn(sent[1].data, "copies") = << [op |-> "P", role |-> "copies", n |-> 1] >>

\* the UPC box holds text that is neither 11 ASCII digits nor 12 digits with
\* a correct check digit, once the other characters are removed
UpcFailsNormalization ==
    /\ strip(upc.val) # <<>>
    /\ ~IsAscii11(Digits(strip(upc.val)))
    /\ ~ValidUpc12(Str(Digits(strip(upc.val))))

\* C29: in _on_print no generator is invoked and nothing is sent when no
\* printer is selected or when a UPC text that is not empty fails
\* normalization; what is sent is the payload a generator returned, and the
\* printer, language and size are saved only after a send without error: a
\* failed generate or send leaves the saved selection as it was.
C29_PrintOrder ==
    pc = "on_print" =>
        /\ (cbo_printers.val = <<>> \/ UpcFailsNormalization) =>
               /\ ret = None
               /\ sent = <<>>
               /\ saved = None
        /\ sent # <<>> =>
               /\ ret.kind = "bytes"
               /\ sent = << [printer_name |-> cbo_printers.val, data |-> ret.val,
                             job_name |-> resolve_language(cbo_language,
                                                           cbo_printers.val)] >>
        /\ saved # None =>
               /\ sent # <<>>
               /\ message = "showinfo"
               /\ saved.val = <<cbo_printers.val, cbo_language, cbo_size.val>>
        /\ (ret.kind = "raise" \/ message # "showinfo") =>
               /\ saved = None
               /\ sent = <<>>

\* a label with a correct UPC was sent and the selection saved
C29_Witness ==
    /\ pc = "on_print"
    /\ upc = Str(Payload03600029145 \o <<"2">>)
    /\ message = "showinfo"
    /\ Len(sent) = 1
    /\ sent[1].data = ret.val
    /\ saved.kind = "row"

(* ------------------------------ settings claims ----------------------- *)

\* C18: under any interleaving of a save_settings for a key with reads of
\* that key by other managers, every read that goes to the file while the
\* save is under way returns the old configuration or the new one, never a
\* third value, and at most one write per key is under way at a time.
C18_ReadersSeeOldOrNew ==
    /\ \A m \in SettingsManagers :
           observed[m].races # {} =>
               \E r \in observed[m].races : observed[m].val \in {r.old, r.new}
    /\ \A label_size \in StoreSizes :
           Cardinality({m \in SettingsManagers :
                            /\ task[m].op = "save"
                            /\ task[m].key = get_settings_key(StorePrinter, label_size)})
               <= 1

\* what a fresh SettingsManager on the file returns from get_settings
FreshGet(file, label_size) ==
    LET cache == load_settings(file)
        key == get_settings_key(StorePrinter, label_size)
    IN  IF key \in DOMAIN cache THEN cache[key]
        ELSE load_printer_settings(file, StorePrinter, label_size)

\* C19: after save_settings(printer, size, s) a fresh SettingsManager
\* followed by get_settings(printer, size) gives a record equal to s, the
\* records of all other keys are what they were before the save, and saving
\* the loaded record again leaves the store unchanged.
C19_SaveLoadRoundTrip ==
    (last_save.kind = "saved" /\ store_file.kind = "json") =>
        LET loaded == FreshGet(store_file, last_save.label_size)
        IN  /\ Settings(loaded) = last_save.new
            /\ \A label_size \in StoreSizes \ {last_save.label_size} :
                   FreshGet(store_file, label_size)
                       = FreshGet(last_save.before, label_size)
            /\ save_all_data((last_save.key :> loaded) @@ load_settings(store_file))
                   = store_file.val

\* C21: in the EPL buffer, with n title lines, title line i (from 0) is at
\* title_y + i * line_spacing; the item, casepack and barcode commands are
\* all shifted by (n - 1) * line_spacing, plus one line_spacing if and only
\* if the separator is enabled and the title is not empty, and then exactly
\* one separator rule is emitted, below the last title line; the casepack
\* command is emitted only for a casepack that is not empty.
C21_EplCascade ==
    (pc = "build_epl_label" /\ ret.kind = "bytes") =>
        LET c == EplLayout
            titles == WithRole("title")
            n == Len(titles)
            rule == c.show_separator /\ OrEmpty(txt_title) # <<>>
            shift == (n - 1) * c.line_spacing + (IF rule THEN c.line_spacing ELSE 0)
        IN  /\ \A i \in 1..n : titles[i].y = c.title_y + (i - 1) * c.line_spacing
            /\ Len(WithRole("separator")) = (IF rule THEN 1 ELSE 0)
            /\ rule => /\ n >= 1
                       /\ WithRole("separator")[1].y > titles[n].y
                       /\ WithRole("separator")[1].y = WithRole("separator")[1].y2
            /\ Len(WithRole("item")) = 1
            /\ WithRole("item")[1].y = c.item_y + shift
            /\ Len(WithRole("case")) = (IF OrEmpty(txt_case) # <<>> THEN 1 ELSE 0)
            /\ \A i \in DOMAIN WithRole("case") :
                   WithRole("case")[i].y = c.case_y + shift
            /\ Len(WithRole("barcode")) <= 1
            /\ \A i \in DOMAIN WithRole("barcode") :
                   WithRole("barcode")[i].y = c.barcode_y + shift

C21_Witness ==
    /\ pc = "build_epl_label"
    /\ arg_settings = None
    /\ cbo_size.val = Size2x1
    /\ txt_title = Str(Rep("a", 12) \o <<" ">> \o Rep("a", 12))
    /\ txt_case = Str(<<"1", "2">>)
    /\ Len(WithRole("title")) = 2
    /\ Len(WithRole("separator")) = 1
    /\ WithRole("item")[1].y = 32 + 24 + 24
    /\ WithRole("case")[1].y = 52 + 24 + 24
    /\ Len(WithRole("barcode")) = 1
    /\ WithRole("barcode")[1].y = 72 + 24 + 24

(* ------------------------------ preview claims ------------------------ *)

\* what the preview drew for a role
Drawn(role) == IF ret.kind = "image" THEN RolesIn(ret.val, role) ELSE <<>>

\* C22: for the same fields and size render_label_preview wraps the title
\* into the same number of lines as build_epl_label and offsets the item,
\* casepack and barcode positions by the same vertical cascade (per-line
\* spacing and separator gap), for every title that is not empty.
C22_PreviewSameCascade ==
    (pc = "render_label_preview" /\ arg_settings = None
         /\ OrEmpty(txt_title) # <<>> /\ EplOfSameFields.kind = "bytes") =>
        LET epl == EplOfSameFields.val
            dims == get_label_size_dots(cbo_size.val)
            p == PreviewLayout(dims.height_dots)
            c == EplFallback(cbo_size.val)
        IN  /\ Len(Drawn("title")) = Len(RolesIn(epl, "title"))
            /\ Drawn("item")[1].y - p.item_y = RolesIn(epl, "item")[1].y - c.item_y
            /\ \A i \in DOMAIN Drawn("case") :
                   Drawn("case")[i].y - p.case_y
                       = RolesIn(epl, "case")[1].y - c.case_y
            /\ \A i \in DOMAIN Drawn("barcode") :
                   RolesIn(epl, "barcode") # <<>> =>
                       Drawn("barcode")[i].y - p.barcode_y
                           = RolesIn(epl, "barcode")[1].y - c.barcode_y

\* C23: whenever the barcode package is unavailable, or the rendering of the
\* barcode raises, or the UPC passed in is not 12 digits (empty included),
\* render_label_preview returns an image with a placeholder text drawn at the
\* barcode position and no symbol.
C23_PlaceholderInsteadOfFailing ==
    (/\ pc = "render_label_preview"
     /\ \/ ~HAS_BARCODE
        \/ bc_render = "raised"
        \/ ~(str_isdigit(OrEmpty(arg_upc12)) /\ Len(OrEmpty(arg_upc12)) = 12)) =>
        LET c == PreviewLayout(get_label_size_dots(cbo_size.val).height_dots)
        IN  /\ ret.kind = "image"
            /\ Drawn("barcode") = <<>>
            /\ Len(Drawn("placeholder")) = 1
            /\ Drawn("placeholder")[1].y >= c.barcode_y

(* ------------------------------ configuration claims ------------------ *)

\* C24: get_settings creates the record of a key with the defaults of the
\* size when the key is not cached and nothing is stored for it, and
\* get_settings, build_epl_label and render_label_preview leave every record
\* already cached and the persisted file as they were; the generator and the
\* preview leave the record they were handed unchanged too; save_settings and
\* reset_to_default replace the record of their key as a whole, in the cache
\* and in the file, and no other cached record.
C24_ReadOnlySnapshots ==
    [][LET cache == caches[Manager]
           after == caches'[Manager]
           key == get_settings_key(cbo_printers'.val, cbo_size'.val)
       IN  /\ (Config_get_settings \/ Call_build_epl_label
                   \/ Call_render_label_preview) =>
                 /\ store_file' = store_file
                 /\ \A k \in DOMAIN cache : k \in DOMAIN after /\ after[k] = cache[k]
                 /\ \A k \in DOMAIN after \ DOMAIN cache :
                        /\ k = key
                        /\ (store_file.kind = "absent" \/ k \notin DOMAIN store_file.val)
                               => after[k] = get_default_settings(cbo_size'.val)
           /\ (Call_build_epl_label \/ Call_render_label_preview) =>
                 /\ arg_settings' = arg_settings
                 /\ caches' = caches
           /\ (Config_save_settings \/ Config_reset_to_default) =>
                 /\ DOMAIN after[key] = Fields
                 /\ arg_settings' = Settings(after[key])
                 /\ store_file' = Json(save_all_data(after))
                 /\ \A k \in DOMAIN cache \ {key} : after[k] = cache[k]
      ]_vars

\* the 4x6 defaults were created by get_settings with no file, and the
\* generator was called with them
C24_Witness ==
    /\ pc = "build_epl_label"
    /\ ret.kind = "bytes"
    /\ store_file = Absent
    /\ cbo_size.val = Size4x6
    /\ arg_settings = Settings(DefaultSettings4x6)
    /\ get_settings_key(Zebra, Size4x6) \in DOMAIN caches[Manager]
    /\ caches[Manager][get_settings_key(Zebra, Size4x6)] = DefaultSettings4x6

\* a record of the file that asdict did not write for a LabelSettings
Malformed(d) == DOMAIN d # Fields

\* C25: on a file with a malformed record for one key (missing or unknown
\* fields), every well-formed key is loaded with its saved values, and
\* get_settings for the malformed key returns the defaults of the size.
C25_MalformedFallsBack ==
    (saves = 0 /\ store_file.kind = "json") =>
        \A k \in DOMAIN store_file.val :
            IF Malformed(store_file.val[k])
            THEN (/\ arg_settings.kind = "settings"
                  /\ get_settings_key(cbo_printers.val, cbo_size.val) = k)
                     => arg_settings = Settings(get_default_settings(cbo_size.val))
            ELSE /\ k \in DOMAIN caches[Manager]
                 /\ asdict(caches[Manager][k]) = store_file.val[k]

\* C26: a save_settings or reset_to_default for one pair of printer_name and
\* label_size leaves the record get_settings returns for every other pair as
\* it was, names with an underscore included.
C26_PairsShareNothing ==
    [][(Config_save_settings \/ Config_reset_to_default) =>
           \A pair \in ConfigPairs \ {<<cbo_printers.val, cbo_size.val>>} :
               get_settings(caches'[Manager], store_file', pair[1], pair[2]).ret
                   = get_settings(caches[Manager], store_file, pair[1], pair[2]).ret
      ]_vars

(* ------------------------------ spooler claims ------------------------ *)

\* the calls of fn made so far
CallsOf(fn) == SelectSeq(spool, LAMBDA call : call.fn = fn)

\* the place of a call in the protocol
Rank(fn) ==
    CASE fn = "OpenPrinter" -> 1
      [] fn = "StartDocPrinter" -> 2
      [] fn = "StartPagePrinter" -> 3
      [] fn = "WritePrinter" -> 4
      [] fn = "EndPagePrinter" -> 5
      [] fn = "EndDocPrinter" -> 6
      [] fn = "ClosePrinter" -> 7

Succeeded(fn) == CallsOf(fn) # <<>> /\ CallsOf(fn)[1].ok

SendOver == pc \in {"returned", "raised"}

\* C30: send_raw makes its calls in the order open, start job, start page,
\* write, end page, end job, close, each at most once; when it is over, the
\* printer that was opened has been closed exactly once, last of all,
\* whatever failed in between; the job has been ended exactly once if it was
\* started and not at all otherwise; the buffer was written at most once, as
\* it was passed in; and send_raw returns only if all seven calls returned,
\* otherwise the failure leaves send_raw as an exception.
C30_SpoolProtocol ==
    /\ \A i, j \in DOMAIN spool : i < j => Rank(spool[i].fn) < Rank(spool[j].fn)
    /\ \A i \in DOMAIN spool :
           spool[i].args = ArgsOf(spool[i].fn, send_args.printer_name,
                                  send_args.data, send_args.job_name)
    /\ \A i \in DOMAIN CallsOf("WritePrinter") :
           CallsOf("WritePrinter")[i].args[2] = send_args.data
    /\ SendOver =>
           /\ spool # <<>> /\ spool[1].fn = "OpenPrinter"
           /\ Len(CallsOf("ClosePrinter")) = (IF Succeeded("OpenPrinter") THEN 1 ELSE 0)
           /\ Succeeded("OpenPrinter") => spool[Len(spool)].fn = "ClosePrinter"
           /\ Len(CallsOf("EndDocPrinter"))
                  = (IF Succeeded("StartDocPrinter") THEN 1 ELSE 0)
           /\ Len(CallsOf("WritePrinter")) <= 1
           /\ (pc = "returned") <=> (Len(spool) = 7 /\ \A i \in DOMAIN spool : spool[i].ok)
           /\ (pc = "raised") <=> (exc # None)
           /\ (pc = "raised") <=> (\E i \in DOMAIN spool : ~spool[i].ok)

\* WritePrinter raised: the job was ended, the printer closed, and the
\* exception left send_raw
C30_Witness ==
    /\ pc = "raised"
    /\ exc = Raise("WritePrinter")
    /\ Len(spool) = 6
    /\ ~spool[4].ok
    /\ spool[5].fn = "EndDocPrinter"
    /\ spool[6].fn = "ClosePrinter"

====
